---------------------------- MODULE Spec2Model ----------------------------
(***************************************************************************)
(* Tru Designs Creative Assistant: a model of src/brand_tools.py (context  *)
(* builder, brief parser) and src/ui_app.py (the Streamlit script: the     *)
(* auto-fill handler, the submit handler, rendering, PDF packaging and the *)
(* project archive).                                                       *)
(*                                                                         *)
(* Text is a sequence of one-character strings, so that strip, split,      *)
(* substring search and JSON decoding are computed on characters as the    *)
(* Python code computes them.                                              *)
(***************************************************************************)
EXTENDS Integers, Sequences, FiniteSets, TLC

VARIABLES
    raw_brief_field,  \* st.text_area(key="raw_brief_field")
    fields,           \* the ten form widgets (st.session_state["<key>_field"])
    project_files,    \* st.session_state["project_files"]: insertion-ordered dict
    pc,               \* position of the current script run
    mode,             \* sidebar selection of the current run
    llm_reply,        \* what llm.invoke did in this run (NoReply before the call)
    remote_calls,     \* the requests this run has sent to the two remote APIs
    img_outcome,      \* what client.images.generate did: "none" | "ok" | "fail"
    result,           \* the text the generate_* function returned
    view,             \* what the run has rendered (st.* calls), in order
    pdf_body,         \* the plain-text form handed to make_pdf
    archive,          \* entries of the zip offered by the run
    files_at_start,   \* history: project_files when the run started
    packaged_log,     \* history: every (filename, bytes) stored, in order
    requests,         \* history: number of submits so far
    call,             \* pure-function specifications: the invocation checked
    ret               \* pure-function specifications: what it returned

session == <<raw_brief_field, fields, project_files, pc, mode, llm_reply,
             remote_calls, img_outcome, result, view, pdf_body, archive,
             files_at_start, packaged_log, requests>>
vars == <<raw_brief_field, fields, project_files, pc, mode, llm_reply,
          remote_calls, img_outcome, result, view, pdf_body, archive,
          files_at_start, packaged_log, requests, call, ret>>

-----------------------------------------------------------------------------
(* Text helpers: Python str operations on sequences of characters.         *)

Chars(s) == [i \in 1..Len(s) |-> SubSeq(s, i, i)]

\* The characters str.strip()/rstrip()/str.isspace() treat as whitespace
\* (the ASCII ones).
Whitespace == {" ", "\t", "\n", "\r", "\f"}

IsBlank(s) == \A i \in 1..Len(s) : s[i] \in Whitespace

\* str.lstrip(): drop leading whitespace.
LStrip(s) ==
    IF IsBlank(s) THEN <<>>
    ELSE LET first == CHOOSE i \in 1..Len(s) :
                          /\ s[i] \notin Whitespace
                          /\ \A k \in 1..(i - 1) : s[k] \in Whitespace
         IN SubSeq(s, first, Len(s))

\* str.rstrip(): drop trailing whitespace.
RStrip(s) ==
    IF IsBlank(s) THEN <<>>
    ELSE LET last == CHOOSE i \in 1..Len(s) :
                         /\ s[i] \notin Whitespace
                         /\ \A k \in (i + 1)..Len(s) : s[k] \in Whitespace
         IN SubSeq(s, 1, last)

\* str.strip()
Strip(s) == LStrip(RStrip(s))

\* sub occurs in s at position i
OccursAt(s, sub, i) ==
    /\ i >= 1
    /\ i + Len(sub) - 1 <= Len(s)
    /\ \A k \in 1..Len(sub) : s[i + k - 1] = sub[k]

\* `sub in s`
Contains(s, sub) == \E i \in 1..(Len(s) - Len(sub) + 1) : OccursAt(s, sub, i)

\* str.find(sub) + 1: the first position of sub in s, 0 when there is none.
Find(s, sub) ==
    IF Contains(s, sub)
    THEN CHOOSE i \in 1..(Len(s) - Len(sub) + 1) :
             /\ OccursAt(s, sub, i)
             /\ \A k \in 1..(i - 1) : ~OccursAt(s, sub, k)
    ELSE 0

\* s.split(sep)[0]: the part of s before the first occurrence of sep.
SplitFirst(s, sep) ==
    IF Contains(s, sep) THEN SubSeq(s, 1, Find(s, sep) - 1) ELSE s

\* "".join(parts)
RECURSIVE Concat(_)
Concat(parts) ==
    IF parts = <<>> THEN <<>> ELSE Head(parts) \o Concat(Tail(parts))

-----------------------------------------------------------------------------
(* IntakeAnswers (src/ui_app.py:413-426) and the context builder           *)
(* (src/brand_tools.py:37-103).  An answer is a record [has, v]: has is     *)
(* FALSE when the key is absent from the dict (answers.get gives None).    *)

FieldKeys == <<"client_name", "industry", "target_audience", "goals",
               "brand_vibe", "voice_tone", "colors", "visual_keywords",
               "platforms", "reference_links">>

FieldKeySet == {FieldKeys[i] : i \in 1..Len(FieldKeys)}

\* The keys of the answers dict the context is built from.
AnswerKeys == FieldKeySet \cup {"raw_brief"}

Absent == [has |-> FALSE, v |-> <<>>]
Str(s) == [has |-> TRUE, v |-> s]

\* `answers.get(key) or "N/A"`: None and "" are falsy, any other string
\* (a whitespace-only one too) is kept.
OrDefault(a, default) == IF a.has /\ a.v # <<>> THEN a.v ELSE default

NA == Chars("N/A")
NoneProvided == Chars("None provided.")

\* The labels of the raw-brief branch, lines 49-57, in order.
RawBranchLabels ==
    <<[key |-> "client_name",     label |-> Chars("Client / Brand: ")],
      [key |-> "industry",        label |-> Chars("Industry / niche: ")],
      [key |-> "target_audience", label |-> Chars("Target audience: ")],
      [key |-> "goals",           label |-> Chars("Main goals: ")],
      [key |-> "brand_vibe",      label |-> Chars("Brand vibe: ")],
      [key |-> "voice_tone",      label |-> Chars("Voice & tone: ")],
      [key |-> "colors",          label |-> Chars("Preferred colors: ")],
      [key |-> "visual_keywords", label |-> Chars("Visual keywords / mood: ")],
      [key |-> "platforms",       label |-> Chars("Main platforms: ")]>>

RawBriefHeader == Chars("RAW CLIENT BRIEF (user-typed):\n\n")
RawBriefRule ==
    Chars("\n\n------------------------------\nStructured intake fields (if any were filled):\n")

RECURSIVE RawBranchLines(_, _)
RawBranchLines(answers, i) ==
    IF i > Len(RawBranchLabels) THEN <<>>
    ELSE RawBranchLabels[i].label
         \o OrDefault(answers[RawBranchLabels[i].key], NA)
         \o <<"\n">>
         \o RawBranchLines(answers, i + 1)

\* The raw-brief block with the brief itself left out.
RawBriefContextNoBrief(answers) ==
    RawBriefHeader \o RawBriefRule \o RawBranchLines(answers, 1)

\* lines 43-58: the f-string returned when a raw brief is present.
RawBriefContext(answers) ==
    RawBriefHeader \o Strip(answers["raw_brief"].v) \o RawBriefRule
    \o RawBranchLines(answers, 1)

\* lines 62-66
RefsText(answers) ==
    IF answers["reference_links"].has
    THEN Strip(answers["reference_links"].v) ELSE <<>>

\* lines 71-75: one "- name" line per uploaded file.
RECURSIVE FileLines(_)
FileLines(names) ==
    IF names = <<>> THEN <<>>
    ELSE <<"-", " ">> \o Head(names) \o <<"\n">> \o FileLines(Tail(names))

FilesText(uploaded_files) ==
    IF uploaded_files = <<>> THEN <<>>
    ELSE Chars("Uploaded reference files (filenames only, designer will open locally):\n")
         \o FileLines(uploaded_files)

\* lines 77-102: the structured f-string, before .strip().
StructuredContext(answers, uploaded_files) ==
    Concat(<<
        Chars("\nClient / Brand:\n- Name: "),
        OrDefault(answers["client_name"], NA),
        Chars("\n- Industry / niche: "),
        OrDefault(answers["industry"], NA),
        Chars("\n\nAudience & Goals:\n- Target audience: "),
        OrDefault(answers["target_audience"], NA),
        Chars("\n- Main business / brand goals: "),
        OrDefault(answers["goals"], NA),
        Chars("\n\nBrand Vibe & Personality:\n- Current / desired vibe: "),
        OrDefault(answers["brand_vibe"], NA),
        Chars("\n- Voice & tone notes: "),
        OrDefault(answers["voice_tone"], NA),
        Chars("\n\nVisual Direction:\n- Preferred colors or themes: "),
        OrDefault(answers["colors"], NA),
        Chars("\n- Visual keywords / mood: "),
        OrDefault(answers["visual_keywords"], NA),
        Chars("\n\nPlatforms:\n- Main platforms: "),
        OrDefault(answers["platforms"], NA),
        Chars("\n\nReferences:\n- Reference links (Insta, Pinterest, sites):\n"),
        OrDefault(Str(RefsText(answers)), NoneProvided),
        Chars("\n\n"),
        FilesText(uploaded_files),
        Chars("\n") >>)

\* _build_context_text(answers)
build_context_text(answers, uploaded_files) ==
    IF answers["raw_brief"].has /\ ~IsBlank(answers["raw_brief"].v)
    THEN RawBriefContext(answers)
    ELSE Strip(StructuredContext(answers, uploaded_files))

-----------------------------------------------------------------------------
(* Python values that json.loads produces, tagged by type:                 *)
(*   [t |-> "null"], [t |-> "bool", v], [t |-> "num", v], [t |-> "str", v],*)
(*   [t |-> "list", v |-> <<values>>],                                     *)
(*   [t |-> "dict", v |-> <<[k |-> key, v |-> value], ...>>]               *)
(* A dict keeps insertion order and holds each key once.                   *)

JNull == [t |-> "null"]
JBool(b) == [t |-> "bool", v |-> b]
JNum(n) == [t |-> "num", v |-> n]
JStr(s) == [t |-> "str", v |-> s]
JList(xs) == [t |-> "list", v |-> xs]
JDict(es) == [t |-> "dict", v |-> es]

\* Python dict: the keys of an ordered dict d, a sequence of [k, v].
DictKeys(d) == {d[i].k : i \in 1..Len(d)}

DictHas(d, key) == \E i \in 1..Len(d) : d[i].k = key

DictGet(d, key) == d[CHOOSE i \in 1..Len(d) : d[i].k = key].v

\* An always-appending store: what a list of pairs would do.
DictSetAppend(d, key, value) == Append(d, [k |-> key, v |-> value])

\* A store that keeps the newest item only.
DictSetAlone(d, key, value) == <<[k |-> key, v |-> value]>>

\* d[key] = value: overwrite in place when the key is there, else append.
DictSet(d, key, value) ==
    IF DictHas(d, key)
    THEN [i \in 1..Len(d) |-> IF d[i].k = key THEN [k |-> key, v |-> value]
                                            ELSE d[i]]
    ELSE Append(d, [k |-> key, v |-> value])

\* The whitespace json.loads skips.
JsonWs == {" ", "\t", "\n", "\r"}

Digits == {"0", "1", "2", "3", "4", "5", "6", "7", "8", "9"}

DigitVal(c) ==
    CASE c = "0" -> 0 [] c = "1" -> 1 [] c = "2" -> 2 [] c = "3" -> 3
      [] c = "4" -> 4 [] c = "5" -> 5 [] c = "6" -> 6 [] c = "7" -> 7
      [] c = "8" -> 8 [] c = "9" -> 9

\* The first position at or after i that holds no JSON whitespace
\* (Len(s) + 1 when the rest is whitespace).
SkipWs(s, i) ==
    CHOOSE j \in i..(Len(s) + 1) :
        /\ (j = Len(s) + 1 \/ s[j] \notin JsonWs)
        /\ \A k \in i..(j - 1) : s[k] \in JsonWs

\* The end of the run of digits that starts at i.
DigitsEnd(s, i) ==
    CHOOSE j \in i..Len(s) :
        /\ \A k \in i..j : s[k] \in Digits
        /\ (j = Len(s) \/ s[j + 1] \notin Digits)

RECURSIVE DigitsValue(_, _, _)
DigitsValue(s, i, j) ==
    IF j < i THEN 0 ELSE 10 * DigitsValue(s, i, j - 1) + DigitVal(s[j])

\* The closing quote of the string literal opened at i, 0 when it is never
\* closed.  (Escapes are outside the modelled grammar: a backslash fails.)
StringEnd(s, i) ==
    IF \E j \in (i + 1)..Len(s) : s[j] = "\""
    THEN CHOOSE j \in (i + 1)..Len(s) :
             /\ s[j] = "\""
             /\ \A k \in (i + 1)..(j - 1) : s[k] # "\""
    ELSE 0

ParseFail == [ok |-> FALSE, v |-> JNull, next |-> 0]
ParseOk(value, next) == [ok |-> TRUE, v |-> value, next |-> next]

RECURSIVE ParseValue(_, _)
RECURSIVE ParseElems(_, _, _)
RECURSIVE ParseMembers(_, _, _)

\* The elements of an array after "[" or ","; i is at the next element.
ParseElems(s, i, acc) ==
    LET e == ParseValue(s, i) IN
    IF ~e.ok THEN ParseFail
    ELSE LET j == SkipWs(s, e.next) IN
         IF j > Len(s) THEN ParseFail
         ELSE IF s[j] = "]" THEN ParseOk(JList(Append(acc, e.v)), j + 1)
         ELSE IF s[j] = "," THEN ParseElems(s, SkipWs(s, j + 1), Append(acc, e.v))
         ELSE ParseFail

\* The members of an object after "{" or ","; i is at the next key.
ParseMembers(s, i, acc) ==
    IF i > Len(s) \/ s[i] # "\"" THEN ParseFail
    ELSE LET close == StringEnd(s, i) IN
         IF close = 0 \/ (\E k \in (i + 1)..(close - 1) : s[k] = "\\")
         THEN ParseFail
         ELSE LET key   == SubSeq(s, i + 1, close - 1)
                  colon == SkipWs(s, close + 1)
              IN
              IF colon > Len(s) \/ s[colon] # ":" THEN ParseFail
              ELSE LET e == ParseValue(s, SkipWs(s, colon + 1)) IN
                   IF ~e.ok THEN ParseFail
                   ELSE LET j == SkipWs(s, e.next) IN
                        IF j > Len(s) THEN ParseFail
                        ELSE IF s[j] = "}"
                             THEN ParseOk(JDict(DictSet(acc, key, e.v)), j + 1)
                        ELSE IF s[j] = ","
                             THEN ParseMembers(s, SkipWs(s, j + 1),
                                               DictSet(acc, key, e.v))
                        ELSE ParseFail

\* One JSON value starting at i (i is past the leading whitespace).
ParseValue(s, i) ==
    IF i > Len(s) THEN ParseFail
    ELSE IF s[i] = "\"" THEN
        LET close == StringEnd(s, i) IN
        IF close = 0 \/ (\E k \in (i + 1)..(close - 1) : s[k] = "\\")
        THEN ParseFail
        ELSE ParseOk(JStr(SubSeq(s, i + 1, close - 1)), close + 1)
    ELSE IF s[i] \in Digits THEN
        LET last == DigitsEnd(s, i) IN
        ParseOk(JNum(DigitsValue(s, i, last)), last + 1)
    ELSE IF OccursAt(s, Chars("null"), i) THEN ParseOk(JNull, i + 4)
    ELSE IF OccursAt(s, Chars("true"), i) THEN ParseOk(JBool(TRUE), i + 4)
    ELSE IF OccursAt(s, Chars("false"), i) THEN ParseOk(JBool(FALSE), i + 5)
    ELSE IF s[i] = "[" THEN
        LET j == SkipWs(s, i + 1) IN
        IF j <= Len(s) /\ s[j] = "]" THEN ParseOk(JList(<<>>), j + 1)
        ELSE ParseElems(s, j, <<>>)
    ELSE IF s[i] = "{" THEN
        LET j == SkipWs(s, i + 1) IN
        IF j <= Len(s) /\ s[j] = "}" THEN ParseOk(JDict(<<>>), j + 1)
        ELSE ParseMembers(s, j, <<>>)
    ELSE ParseFail

\* json.loads(text): the whole text must be one value between optional
\* whitespace; anything else raises json.JSONDecodeError.
json_loads(text) ==
    LET r == ParseValue(text, SkipWs(text, 1)) IN
    IF r.ok /\ SkipWs(text, r.next) = Len(text) + 1
    THEN [ok |-> TRUE, v |-> r.v]
    ELSE [ok |-> FALSE, v |-> JNull]

\* json.dumps(value) for the values above (used to write the text model's
\* replies).
RECURSIVE Encode(_)
RECURSIVE EncodeElems(_)
RECURSIVE EncodeMembers(_)
EncodeElems(xs) ==
    IF xs = <<>> THEN <<>>
    ELSE Encode(Head(xs))
         \o (IF Len(xs) > 1 THEN <<",", " ">> ELSE <<>>)
         \o EncodeElems(Tail(xs))
EncodeMembers(es) ==
    IF es = <<>> THEN <<>>
    ELSE <<"\"">> \o Head(es).k \o <<"\"", ":", " ">> \o Encode(Head(es).v)
         \o (IF Len(es) > 1 THEN <<",", " ">> ELSE <<>>)
         \o EncodeMembers(Tail(es))
RECURSIVE EncodeNat(_)
EncodeNat(n) ==
    LET d == <<"0", "1", "2", "3", "4", "5", "6", "7", "8", "9">>[(n % 10) + 1] IN
    IF n < 10 THEN <<d>> ELSE EncodeNat(n \div 10) \o <<d>>
Encode(x) ==
    CASE x.t = "null" -> Chars("null")
      [] x.t = "bool" -> (IF x.v THEN Chars("true") ELSE Chars("false"))
      [] x.t = "num"  -> EncodeNat(x.v)
      [] x.t = "str"  -> <<"\"">> \o x.v \o <<"\"">>
      [] x.t = "list" -> <<"[">> \o EncodeElems(x.v) \o <<"]">>
      [] x.t = "dict" -> <<"{">> \o EncodeMembers(x.v) \o <<"}">>

-----------------------------------------------------------------------------
(* Exceptions.  The outcome of a block of Python is a return, a raise or   *)
(* falling through to the statement after it.                              *)

Return(value) == [kind |-> "return", v |-> value]
Raise(exc) == [kind |-> "raise", exc |-> exc]
Fall == [kind |-> "fall"]

\* A text call whose failure is swallowed: the caller gets an empty text.
run_llm_swallowing(reply) ==
    IF reply.ok THEN Return(reply.text) ELSE Return(<<>>)

\* _run_llm(system_prompt, user_prompt): llm.invoke either returns the
\* completion, which _run_llm returns verbatim, or raises; nothing here
\* catches it.  `reply` is what the remote model does with the call.
run_llm(reply) ==
    IF reply.ok THEN Return(reply.text) ELSE Raise("TransportError")

-----------------------------------------------------------------------------
(* The brief parser, src/brand_tools.py:540-594.                           *)

\* What a clause that handles only the decode error would do.
ExceptDecodeErrorPass(outcome) ==
    IF outcome.kind = "raise" /\ outcome.exc = "JSONDecodeError" THEN Fall
    ELSE outcome

\* lines 579-580, `except Exception: pass`: any exception of the try body
\* is swallowed and control falls through to the fallback.
ExceptExceptionPass(outcome) ==
    IF outcome.kind = "raise" THEN Fall ELSE outcome

\* lines 583-594: the fallback mapping, ten keys, each "".
EmptyFields ==
    JDict([i \in 1..Len(FieldKeys) |-> [k |-> Chars(FieldKeys[i]), v |-> JStr(<<>>)]])

\* lines 567-572: the user prompt, stripped.
ParsePrompt(raw_brief) ==
    Strip(Chars("\nParse this brief into structured fields.\n\nBRIEF:\n")
          \o raw_brief \o <<"\n">>)

\* lines 575-578: the try body.
ParseTryBody(reply) ==
    LET text == run_llm(reply) IN
    IF text.kind = "raise" THEN text
    ELSE LET data == json_loads(text.v) IN
         IF ~data.ok THEN Raise("JSONDecodeError")
         ELSE IF data.v.t = "dict" THEN Return(data.v)
         ELSE Fall

\* parse_brief_to_fields(raw_brief), given the text model's reply.
parse_brief_to_fields(raw_brief, reply) ==
    LET o == ExceptExceptionPass(ParseTryBody(reply)) IN
    IF o.kind = "fall" THEN Return(EmptyFields) ELSE o

-----------------------------------------------------------------------------
(* The calendar table, src/ui_app.py:461-476.  A DataFrame is              *)
(* [columns |-> <<labels>>, rows |-> <<row>>], a row a sequence of cells    *)
(* aligned with the columns; a cell is a JSON value or NaN (a record that   *)
(* lacks the column).  pandas is modelled on the decoded values the model   *)
(* draws: lists of records whose values are ints and strings, lists of      *)
(* scalars, the empty list, dicts of scalars, and scalars.                  *)

NaN == [t |-> "nan"]

IsScalar(x) == x.t \in {"null", "bool", "num", "str"}

\* The union of the records' keys, in order of first appearance.
RECURSIVE UnionKeys(_, _)
UnionKeys(records, acc) ==
    IF records = <<>> THEN acc
    ELSE LET d == Head(records).v
             fresh == SelectSeq([i \in 1..Len(d) |-> d[i].k],
                                LAMBDA key : \A j \in 1..Len(acc) : acc[j] # key)
         IN UnionKeys(Tail(records), acc \o fresh)

\* pd.DataFrame(data)
pd_DataFrame(data) ==
    CASE data.t = "list" /\ data.v = <<>> ->
             Return([columns |-> <<>>, rows |-> <<>>])
      [] data.t = "list" /\ data.v # <<>>
                         /\ \A i \in 1..Len(data.v) : data.v[i].t = "dict" ->
             LET cols == UnionKeys(data.v, <<>>) IN
             Return([columns |-> cols,
                     rows |-> [i \in 1..Len(data.v) |->
                                 [c \in 1..Len(cols) |->
                                    IF DictHas(data.v[i].v, cols[c])
                                    THEN DictGet(data.v[i].v, cols[c])
                                    ELSE NaN]]])
      [] data.t = "list" /\ data.v # <<>>
                         /\ \A i \in 1..Len(data.v) : IsScalar(data.v[i]) ->
             \* one column, labelled 0
             Return([columns |-> <<<<"0">>>>,
                     rows |-> [i \in 1..Len(data.v) |-> <<data.v[i]>>]])
      [] data.t = "dict" /\ data.v = <<>> ->
             Return([columns |-> <<>>, rows |-> <<>>])
      [] data.t = "dict" /\ data.v # <<>>
                         /\ \A i \in 1..Len(data.v) : IsScalar(data.v[i].v) ->
             \* "If using all scalar values, you must pass an index"
             Raise("ValueError")
      [] data.t = "null" ->
             Return([columns |-> <<>>, rows |-> <<>>])
      [] data.t \in {"num", "str", "bool"} ->
             \* "DataFrame constructor not properly called!"
             Raise("ValueError")

ColumnIndex(df, label) == CHOOSE c \in 1..Len(df.columns) : df.columns[c] = label

\* The table with every column kept, whatever the selection.
SelectAllColumns(df, labels) == Return(df)

\* df[labels]: the listed columns in the listed order; KeyError when one is
\* not a column of df.
SelectColumns(df, labels) ==
    IF \E i \in 1..Len(labels) :
           \A c \in 1..Len(df.columns) : df.columns[c] # labels[i]
    THEN Raise("KeyError")
    ELSE Return([columns |-> labels,
                 rows |-> [r \in 1..Len(df.rows) |->
                             [i \in 1..Len(labels) |->
                                df.rows[r][ColumnIndex(df, labels[i])]]]])

\* df.columns = labels
RenameColumns(df, labels) ==
    IF Len(labels) # Len(df.columns) THEN Raise("ValueError")
    ELSE Return([df EXCEPT !.columns = labels])

\* lines 464 and 467-472
CalendarFields ==
    <<Chars("day"), Chars("platform"), Chars("post_type"), Chars("hook"),
      Chars("visual_direction"), Chars("cta")>>

CalendarHeaders ==
    <<Chars("Day"), Chars("Platform"), Chars("Post Type"),
      Chars("Hook / Caption Idea"), Chars("Visual Direction"), Chars("CTA")>>

\* How a cell prints.  An int column that has a missing value is a float
\* column: its ints print as "<n>.0".
CellText(df, r, c) ==
    LET x == df.rows[r][c]
        floats == /\ \E q \in 1..Len(df.rows) : df.rows[q][c].t = "nan"
                  /\ \A q \in 1..Len(df.rows) : df.rows[q][c].t \in {"nan", "num"}
    IN CASE x.t = "nan" -> Chars("NaN")
         [] x.t = "num" -> EncodeNat(x.v) \o (IF floats THEN Chars(".0") ELSE <<>>)
         [] x.t = "str" -> x.v

Max(a, b) == IF a >= b THEN a ELSE b

RECURSIVE MaxCellWidth(_, _, _)
MaxCellWidth(df, c, r) ==
    IF r = 0 THEN Len(df.columns[c])
    ELSE Max(Len(CellText(df, r, c)), MaxCellWidth(df, c, r - 1))

Spaces(n) == [i \in 1..n |-> " "]

RightJustify(text, width) == Spaces(width - Len(text)) \o text

RECURSIVE JoinWith(_, _)
JoinWith(parts, sep) ==
    IF parts = <<>> THEN <<>>
    ELSE IF Len(parts) = 1 THEN Head(parts)
    ELSE Head(parts) \o sep \o JoinWith(Tail(parts), sep)

\* df.to_string(index=False) of a table with at least one row: the header
\* line and one line per row, every cell right-justified to its column's
\* width, columns one space apart.  (The exact padding differs between
\* pandas versions; the lines, their order and their cells do not.)
df_to_string(df) ==
    LET width == [c \in 1..Len(df.columns) |-> MaxCellWidth(df, c, Len(df.rows))]
        header == JoinWith([c \in 1..Len(df.columns) |->
                               RightJustify(df.columns[c], width[c])], <<" ">>)
        line(r) == JoinWith([c \in 1..Len(df.columns) |->
                                RightJustify(CellText(df, r, c), width[c])], <<" ">>)
    IN JoinWith(<<header>> \o [r \in 1..Len(df.rows) |-> line(r)], <<"\n">>)

\* What the run shows.
Shown(widget, body) == [w |-> widget, body |-> body]

\* Characters outside ASCII are named by their code point.
CalendarEmoji == "U+1F4C5"
RightSingleQuote == "U+2019"

CalendarSubheader == <<CalendarEmoji>> \o Chars(" Generated 30-Day Content Calendar")

CalendarWarning ==
    Chars("Couldn") \o <<RightSingleQuote>>
    \o Chars("t parse structured calendar, showing raw text instead:")

\* lines 461-476: the try body.  It returns the table, or raises.
CalendarTryBody(calendar_text) ==
    LET data == json_loads(calendar_text) IN
    IF ~data.ok THEN Raise("JSONDecodeError")
    ELSE LET df == pd_DataFrame(data.v) IN
         IF df.kind = "raise" THEN df
         ELSE LET picked == SelectColumns(df.v, CalendarFields) IN
              IF picked.kind = "raise" THEN picked
              ELSE RenameColumns(picked.v, CalendarHeaders)

\* The calendar branch with the decode error let through.
RenderCalendarNoCatch(calendar_text) ==
    LET t == CalendarTryBody(calendar_text) IN
    IF t.kind = "return"
    THEN Return([view |-> <<Shown("subheader", CalendarSubheader),
                           Shown("dataframe", t.v)>>,
                 pdf_body |-> df_to_string(t.v)])
    ELSE t

\* The calendar branch with the raw text trimmed on the way to the fallback.
RenderCalendarTrimmed(calendar_text) ==
    LET t == CalendarTryBody(calendar_text) IN
    IF t.kind = "return"
    THEN Return([view |-> <<Shown("subheader", CalendarSubheader),
                           Shown("dataframe", t.v)>>,
                 pdf_body |-> df_to_string(t.v)])
    ELSE Return([view |-> <<Shown("subheader", CalendarSubheader),
                           Shown("warning", CalendarWarning),
                           Shown("markdown", Strip(calendar_text))>>,
                 pdf_body |-> Strip(calendar_text)])

\* lines 456-480: the calendar branch; `except Exception` turns any raise of
\* the try body into the warning and the raw text.
RenderCalendar(calendar_text) ==
    LET t == CalendarTryBody(calendar_text) IN
    IF t.kind = "return"
    THEN Return([view |-> <<Shown("subheader", CalendarSubheader),
                           Shown("dataframe", t.v)>>,
                 pdf_body |-> df_to_string(t.v)])
    ELSE Return([view |-> <<Shown("subheader", CalendarSubheader),
                           Shown("warning", CalendarWarning),
                           Shown("markdown", calendar_text)>>,
                 pdf_body |-> calendar_text])

-----------------------------------------------------------------------------
(* Swatches, src/ui_app.py:121-141.  The pattern is                        *)
(*   \|\s*([^|\n]+?)\s*\|\s*([^|\n]+?)\s*\|\s*#?([0-9A-Fa-f]{6})\s*\|      *)
(* No part of it but the four \| can match a pipe, so a match that starts  *)
(* at a pipe runs over the next three pipes, and what lies between them    *)
(* decides it.                                                             *)

\* What \s matches (the ASCII ones).
RegexSpace == {" ", "\t", "\n", "\r", "\f"}

HexDigits == Digits \cup {"a", "b", "c", "d", "e", "f", "A", "B", "C", "D", "E", "F"}

\* str.upper() on a hex digit
UpperHex(c) ==
    CASE c = "a" -> "A" [] c = "b" -> "B" [] c = "c" -> "C"
      [] c = "d" -> "D" [] c = "e" -> "E" [] c = "f" -> "F"
      [] OTHER -> c

\* The first pipe at or after i, 0 when there is none.
NextPipe(s, i) ==
    IF \E j \in i..Len(s) : s[j] = "|"
    THEN CHOOSE j \in i..Len(s) :
             s[j] = "|" /\ \A k \in i..(j - 1) : s[k] # "|"
    ELSE 0

AllSpace(seg) == \A i \in 1..Len(seg) : seg[i] \in RegexSpace

\* seg = \s* g \s* with g = seg[a+1 .. a+b] non-empty and free of "\n"
CellSplit(seg, a, b) ==
    /\ b >= 1
    /\ a + b <= Len(seg)
    /\ AllSpace(SubSeq(seg, 1, a))
    /\ \A k \in (a + 1)..(a + b) : seg[k] # "\n"
    /\ AllSpace(SubSeq(seg, a + b + 1, Len(seg)))

CellMatches(seg) ==
    \E a \in 0..Len(seg), b \in 1..Len(seg) : CellSplit(seg, a, b)

\* What \s*([^|\n]+?)\s* captures in seg: the leading \s* is greedy (the
\* longest a that works), the group lazy (then the shortest b).
CellCapture(seg) ==
    LET a == CHOOSE x \in 0..Len(seg) :
                 /\ \E b \in 1..Len(seg) : CellSplit(seg, x, b)
                 /\ \A y \in (x + 1)..Len(seg) :
                        ~\E b \in 1..Len(seg) : CellSplit(seg, y, b)
        b == CHOOSE x \in 1..Len(seg) :
                 /\ CellSplit(seg, a, x)
                 /\ \A y \in 1..(x - 1) : ~CellSplit(seg, a, y)
    IN SubSeq(seg, a + 1, a + b)

\* seg = \s* #? hhhhhh \s*: the position of the first hex digit, 0 when seg
\* is not of that form.
HexStart(seg) ==
    LET body == Strip(seg)
        lead == Len(LStrip(seg))
        from == Len(seg) - lead + 1
    IN IF AllSpace(seg) THEN 0
       ELSE IF Len(body) = 6 /\ \A k \in 1..6 : body[k] \in HexDigits THEN from
       ELSE IF Len(body) = 7 /\ body[1] = "#"
                             /\ \A k \in 2..7 : body[k] \in HexDigits THEN from + 1
       ELSE 0

\* The match that starts at the pipe at i, if there is one.
MatchAt(s, i) ==
    LET p2 == NextPipe(s, i + 1)
        p3 == IF p2 = 0 THEN 0 ELSE NextPipe(s, p2 + 1)
        p4 == IF p3 = 0 THEN 0 ELSE NextPipe(s, p3 + 1)
    IN IF p4 = 0 THEN [ok |-> FALSE]
       ELSE LET c1 == SubSeq(s, i + 1, p2 - 1)
                c2 == SubSeq(s, p2 + 1, p3 - 1)
                c3 == SubSeq(s, p3 + 1, p4 - 1)
            IN IF CellMatches(c1) /\ CellMatches(c2) /\ HexStart(c3) # 0
               THEN [ok |-> TRUE,
                     groups |-> <<CellCapture(c1), CellCapture(c2),
                                  SubSeq(c3, HexStart(c3), HexStart(c3) + 5)>>,
                     end |-> p4]
               ELSE [ok |-> FALSE]

\* re.findall(pattern, text): the matches from left to right, each search
\* starting after the previous match.
RECURSIVE FindAll(_, _)
FindAll(s, from) ==
    LET i == NextPipe(s, from) IN
    IF i = 0 THEN <<>>
    ELSE LET m == MatchAt(s, i) IN
         IF m.ok THEN <<m.groups>> \o FindAll(s, m.end + 1)
         ELSE FindAll(s, i + 1)

PaletteEmoji == "U+1F3A8"

\* render_color_swatches with the code shown as it was written.
render_color_swatches_as_written(markdown_text) ==
    LET matches == FindAll(markdown_text, 1) IN
    IF matches = <<>> THEN <<>>
    ELSE <<Shown("markdown", Chars("#### ") \o <<PaletteEmoji>> \o Chars(" Quick Color Swatches"))>>
         \o [i \in 1..Len(matches) |->
               Shown("swatch",
                     [name |-> Strip(matches[i][1]),
                      role |-> Strip(matches[i][2]),
                      hex  |-> matches[i][3]])]

\* render_color_swatches(markdown_text): what it shows.
render_color_swatches(markdown_text) ==
    LET matches == FindAll(markdown_text, 1) IN
    IF matches = <<>> THEN <<>>
    ELSE <<Shown("markdown", Chars("#### ") \o <<PaletteEmoji>> \o Chars(" Quick Color Swatches"))>>
         \o [i \in 1..Len(matches) |->
               Shown("swatch",
                     [name |-> Strip(matches[i][1]),
                      role |-> Strip(matches[i][2]),
                      hex  |-> [k \in 1..6 |-> UpperHex(matches[i][3][k])]])]

-----------------------------------------------------------------------------
(* make_pdf, src/ui_app.py:33-80.  A character outside ASCII is named      *)
(* "U+<hex code point>"; it is in latin-1 when the code point is below     *)
(* U+0100.                                                                 *)

IsLatin1(c) == Len(c) = 1 \/ (Len(c) = 6 /\ SubSeq(c, 3, 4) = "00")

\* lines 42-50, in the dict's order
Replacements ==
    <<[bad |-> "U+2013", good |-> Chars("-")],
      [bad |-> "U+2014", good |-> Chars("-")],
      [bad |-> "U+201C", good |-> Chars("\"")],
      [bad |-> "U+201D", good |-> Chars("\"")],
      [bad |-> "U+2018", good |-> Chars("'")],
      [bad |-> "U+2019", good |-> Chars("'")],
      [bad |-> "U+2026", good |-> Chars("...")]>>

\* text.replace(bad, good) for a one-character bad
RECURSIVE Replace(_, _, _)
Replace(text, bad, good) ==
    IF Len(text) = 0 THEN <<>>
    ELSE IF Len(text) = 1 THEN (IF text[1] = bad THEN good ELSE text)
    ELSE LET half == Len(text) \div 2 IN
         Replace(SubSeq(text, 1, half), bad, good)
         \o Replace(SubSeq(text, half + 1, Len(text)), bad, good)

\* lines 51-52: the loop over the replacements
RECURSIVE ReplaceEach(_, _)
ReplaceEach(text, i) ==
    IF i > Len(Replacements) THEN text
    ELSE ReplaceEach(Replace(text, Replacements[i].bad, Replacements[i].good), i + 1)

\* Line 55 without the encode: every character stays.
KeepNonLatin1(text) == text

\* line 55: text.encode("latin-1", "ignore").decode("latin-1")
DropNonLatin1(text) == SelectSeq(text, IsLatin1)

\* sanitize(text), lines 40-55
sanitize(text) == DropNonLatin1(ReplaceEach(text, 1))

\* text.split("\n")
RECURSIVE SplitLines(_)
SplitLines(text) ==
    IF ~Contains(text, <<"\n">>) THEN <<text>>
    ELSE LET i == Find(text, <<"\n">>) IN
         <<SubSeq(text, 1, i - 1)>> \o SplitLines(SubSeq(text, i + 1, Len(text)))

\* make_pdf(title, body): the document FPDF lays out, a title cell and one
\* cell per body line (a blank line is written as " ").
make_pdf(title, body) ==
    LET safe_title == sanitize(title)
        safe_body  == sanitize(body)
        lines      == SplitLines(safe_body)
    IN [title |-> safe_title,
        body  |-> [i \in 1..Len(lines) |->
                     IF IsBlank(lines[i]) THEN <<" ">> ELSE lines[i]]]

-----------------------------------------------------------------------------
(* The document kinds: the labels of the sidebar radio,                    *)
(* src/ui_app.py:201-216.                                                  *)

Arrow == "U+2192"
Backtick == "U+0060"

BrandDiscoverySummary == Chars("Brand Discovery Summary")
BrandStyleGuide == Chars("Brand Style Guide")
LogoDirectionIdeas == Chars("Logo Direction Ideas")
AILogoSketchKit == Chars("AI Logo Sketch Kit")
WebsiteOutline == Chars("Website / Landing Page Outline")
ProjectSummaryProposal == Chars("Project Summary & Proposal")
ColorPaletteGenerator == Chars("Color Palette Generator")
BrandVoiceGuide == Chars("Brand Voice Guide")
ProposalInvoiceOutline == Chars("Proposal ") \o <<Arrow>> \o Chars(" Invoice Outline")
DomainTaglineIdeas == Chars("Domain & Tagline Ideas")
ContentCalendar == Chars("30-Day Content Calendar")

Modes ==
    {BrandDiscoverySummary, BrandStyleGuide, LogoDirectionIdeas, AILogoSketchKit,
     WebsiteOutline, ProjectSummaryProposal, ColorPaletteGenerator,
     BrandVoiceGuide, ProposalInvoiceOutline, DomainTaglineIdeas, ContentCalendar}

\* lines 429-450: the generate_* function the submit handler calls.
GenerateFn(m) ==
    CASE m = BrandDiscoverySummary  -> "generate_brand_discovery_summary"
      [] m = BrandStyleGuide        -> "generate_brand_style_guide"
      [] m = LogoDirectionIdeas     -> "generate_logo_directions"
      [] m = AILogoSketchKit        -> "generate_logo_sketch_kit"
      [] m = WebsiteOutline         -> "generate_site_outline"
      [] m = ProjectSummaryProposal -> "generate_project_summary_proposal"
      [] m = ColorPaletteGenerator  -> "generate_color_palette"
      [] m = BrandVoiceGuide        -> "generate_brand_voice"
      [] m = ProposalInvoiceOutline -> "generate_invoice_outline"
      [] m = DomainTaglineIdeas     -> "generate_domain_and_taglines"
      [] OTHER                      -> "generate_content_calendar"

UpperLetters == Chars("ABCDEFGHIJKLMNOPQRSTUVWXYZ")
LowerLetters == Chars("abcdefghijklmnopqrstuvwxyz")

\* str.lower() on one character
LowerChar(c) ==
    IF \E i \in 1..26 : UpperLetters[i] = c
    THEN LowerLetters[CHOOSE i \in 1..26 : UpperLetters[i] = c]
    ELSE c

\* lines 519-521
safe_mode_slug(m) ==
    LET replaced == Replace(Replace(Replace(m, " ", <<"_">>), Arrow, Chars("to")),
                            "&", Chars("and"))
    IN [i \in 1..Len(replaced) |-> LowerChar(replaced[i])]

\* line 522
FileName(client_name, m) ==
    (IF client_name # <<>> THEN client_name ELSE Chars("brand"))
    \o <<"_">> \o safe_mode_slug(m) \o Chars(".pdf")

\* line 516
PdfTitle(client_name, m) == client_name \o Chars(" - ") \o m

\* line 547
ZipName(client_name) ==
    (IF client_name # <<>> THEN client_name ELSE Chars("client"))
    \o Chars("_project.zip")

-----------------------------------------------------------------------------
(* Rendering of the kinds other than the calendar, src/ui_app.py:481-496.  *)

PaletteMarker == Chars("Palette JSON")
JsonFence == <<Backtick, Backtick, Backtick>> \o Chars("json")

OutputSubheader == <<"U+1F4C4">> \o Chars(" Generated Output")

\* Lines 485-490 without the rstrip() after each cut.
DisplayTextNoStrip(m, text) ==
    IF m = ColorPaletteGenerator
    THEN LET cut1 == IF Contains(text, PaletteMarker)
                     THEN SplitFirst(text, PaletteMarker) ELSE text
         IN IF Contains(cut1, JsonFence)
            THEN SplitFirst(cut1, JsonFence) ELSE cut1
    ELSE text

\* lines 485-490
DisplayText(m, text) ==
    IF m = ColorPaletteGenerator
    THEN LET cut1 == IF Contains(text, PaletteMarker)
                     THEN RStrip(SplitFirst(text, PaletteMarker)) ELSE text
         IN IF Contains(cut1, JsonFence)
            THEN RStrip(SplitFirst(cut1, JsonFence)) ELSE cut1
    ELSE text

\* lines 481-496
RenderText(m, text) ==
    LET display_text == DisplayText(m, text) IN
    Return([view |-> <<Shown("subheader", OutputSubheader),
                      Shown("markdown", display_text)>>
                    \o (IF m = ColorPaletteGenerator
                        THEN render_color_swatches(display_text) ELSE <<>>),
            pdf_body |-> display_text])

\* lines 456-496: what the run shows for the returned text, and the plain
\* text it keeps for packaging.
RenderOutput(m, text) ==
    IF m = ContentCalendar THEN RenderCalendar(text) ELSE RenderText(m, text)

-----------------------------------------------------------------------------
(* Inputs of the pure-function specifications.                             *)

\* A sample value for each intake field.
SampleValue(key) ==
    CASE key = "client_name"     -> Chars("Acme")
      [] key = "industry"        -> Chars("skincare")
      [] key = "target_audience" -> Chars("busy parents")
      [] key = "goals"           -> Chars("grow Instagram")
      [] key = "brand_vibe"      -> Chars("bold, playful")
      [] key = "voice_tone"      -> Chars("friendly")
      [] key = "colors"          -> Chars("hot pink")
      [] key = "visual_keywords" -> Chars("neon")
      [] key = "platforms"       -> Chars("TikTok")
      [] key = "reference_links" -> Chars("https://pin.example/board")

\* A dict with the given keys, the value of each chosen by Val.
DictOf(keys, Val(_)) ==
    JDict([i \in 1..Len(keys) |-> [k |-> Chars(keys[i]), v |-> Val(keys[i])]])

FilledValue(key) == JStr(SampleValue(key))
EmptyValue(key) == JStr(<<>>)

\* keys without the one at position i
Without(keys, i) == SubSeq(keys, 1, i - 1) \o SubSeq(keys, i + 1, Len(keys))

FilledDict == DictOf(FieldKeys, FilledValue)

\* Values that are not strings.
NonStrings == <<JNum(5), JNull, JList(<<JStr(Chars("TikTok"))>>), JBool(TRUE)>>

\* A reply of the text model: the completion text, labelled by how it was
\* built (and, for a calendar, a description of the records it was built
\* from).
NoCal == [n |-> 0, variant |-> "none", p |-> 0, i |-> 0]
CalReply(shape, text, cal) ==
    [shape |-> shape, ok |-> TRUE, text |-> text, cal |-> cal]
TextReply(shape, text) == CalReply(shape, text, NoCal)
TransportFailure ==
    [shape |-> "transport_failure", ok |-> FALSE, text |-> <<>>, cal |-> NoCal]
NoReply == [shape |-> "none", ok |-> FALSE, text |-> <<>>, cal |-> NoCal]

\* The replies of the text model to the extraction prompt, labelled by
\* how they were built.
ParseReplies ==
    {TransportFailure}
    \cup {TextReply("exact", Encode(d)) : d \in
            {FilledDict, EmptyFields}
            \cup {DictOf(FieldKeys, LAMBDA k : IF k = FieldKeys[i]
                                               THEN FilledValue(k)
                                               ELSE EmptyValue(k)) :
                  i \in 1..Len(FieldKeys)}}
    \cup {TextReply("missing_key", Encode(DictOf(Without(FieldKeys, i), FilledValue))) :
            i \in 1..Len(FieldKeys)}
    \cup {TextReply("missing_key", Chars("{}"))}
    \cup {TextReply("extra_key",
                    Encode(JDict(Append(FilledDict.v,
                                        [k |-> Chars("notes"), v |-> JStr(Chars("n/a"))]))))}
    \cup {TextReply("non_string",
                    Encode(DictOf(FieldKeys, LAMBDA k : IF k = FieldKeys[i]
                                                        THEN NonStrings[j]
                                                        ELSE FilledValue(k)))) :
            i \in 1..Len(FieldKeys), j \in 1..Len(NonStrings)}
    \cup {TextReply("non_mapping", t) : t \in
            {Encode(JList(<<FilledDict>>)), Chars("[]"), Chars("42"),
             Chars("\"Acme\""), Chars("null"), Chars(" true\n")}}
    \cup {TextReply("malformed", SubSeq(Encode(FilledDict), 1, n)) :
            n \in 0..(Len(Encode(FilledDict)) - 1)}
    \cup {TextReply("malformed", t) : t \in
            {Chars(" \n"), Chars("Sure! Here is the JSON you asked for."),
             Chars("json\n") \o Encode(FilledDict),
             Encode(FilledDict) \o Chars("\nLet me know if you need more."),
             Chars("{'client_name': 'Acme'}"),
             Chars("{\"client_name\": \"Acme\",}")}}

\* Raw briefs a user may paste.
Briefs ==
    {<<>>, Chars(" \n"), Chars("Launching SpotaSwag, an art merch brand."),
     Chars("  New cafe in Austin \n"), Chars("x")}

-----------------------------------------------------------------------------
(* The session when the app starts and nothing has been done.              *)

\* No archive is offered.
NoArchive == [name |-> <<>>, entries |-> <<>>]

SessionInit ==
    /\ raw_brief_field = <<>>
    /\ fields = [k \in FieldKeySet |-> <<>>]
    /\ project_files = <<>>
    /\ pc = "idle"
    /\ mode = BrandDiscoverySummary
    /\ llm_reply = NoReply
    /\ remote_calls = <<>>
    /\ img_outcome = "none"
    /\ result = <<>>
    /\ view = <<>>
    /\ pdf_body = <<>>
    /\ archive = NoArchive
    /\ files_at_start = <<>>
    /\ packaged_log = <<>>
    /\ requests = 0

-----------------------------------------------------------------------------
(* The replies of the text model to a generation request.                  *)

MaxDays == 3

\* The number of records the calendar prompt asks for.
CalendarDays == 30

\* One calendar record, as the prompt describes it.
CalendarRecord(day) ==
    JDict(<<[k |-> Chars("day"), v |-> JNum(day)],
            [k |-> Chars("platform"),
             v |-> JStr(IF day % 2 = 1 THEN Chars("Instagram") ELSE Chars("TikTok"))],
            [k |-> Chars("post_type"), v |-> JStr(Chars("Reel"))],
            [k |-> Chars("hook"), v |-> JStr(Chars("Hook ") \o EncodeNat(day))],
            [k |-> Chars("visual_direction"), v |-> JStr(Chars("neon"))],
            [k |-> Chars("cta"), v |-> JStr(Chars("Shop now"))]>>)

WithExtra(rec) == JDict(Append(rec.v, [k |-> Chars("notes"), v |-> JStr(Chars("tbd"))]))

Reversed(rec) == JDict([i \in 1..Len(rec.v) |-> rec.v[Len(rec.v) + 1 - i]])

Lacking(rec, i) == JDict(Without(rec.v, i))

\* The records a description stands for: n records, of which
\*   "plain"          all hold exactly the six fields,
\*   "extra"          all hold a seventh field,
\*   "last_extra"     the last holds a seventh field,
\*   "first_reversed" the first lists its fields in reverse order,
\*   "one_lacks"      record p lacks field i,
\*   "all_lack"       all lack field i.
Cal(n, variant, p, i) == [n |-> n, variant |-> variant, p |-> p, i |-> i]

RecordsOf(cal) ==
    [day \in 1..cal.n |->
        CASE cal.variant = "extra" -> WithExtra(CalendarRecord(day))
          [] cal.variant = "last_extra" /\ day = cal.n -> WithExtra(CalendarRecord(day))
          [] cal.variant = "first_reversed" /\ day = 1 -> Reversed(CalendarRecord(day))
          [] cal.variant = "one_lacks" /\ day = cal.p -> Lacking(CalendarRecord(day), cal.i)
          [] cal.variant = "all_lack" -> Lacking(CalendarRecord(day), cal.i)
          [] OTHER -> CalendarRecord(day)]

Records(n) == RecordsOf(Cal(n, "plain", 0, 0))

CalendarSizes == (1..MaxDays) \cup {CalendarDays}

\* Arrays of records that each hold the six fields.
ValidCalendars ==
    {Cal(n, variant, 0, 0) : n \in CalendarSizes, variant \in {"plain", "extra"}}
    \cup {Cal(n, variant, 0, 0) : n \in 1..MaxDays,
                                  variant \in {"last_extra", "first_reversed"}}

CalendarReplies ==
    {TransportFailure}
    \cup {CalReply("valid", Encode(JList(RecordsOf(cal))), cal) : cal \in ValidCalendars}
    \cup {CalReply("valid", Chars("\n") \o Encode(JList(Records(2))) \o Chars("\n"),
                   Cal(2, "plain", 0, 0))}
    \cup {CalReply("one_lacks_field", Encode(JList(RecordsOf(cal))), cal) : cal \in
            {Cal(MaxDays, "one_lacks", p, i) : p \in 1..MaxDays, i \in 1..Len(CalendarFields)}}
    \cup {CalReply("all_lack_field", Encode(JList(RecordsOf(cal))), cal) : cal \in
            {Cal(n, "all_lack", 0, i) : n \in 1..MaxDays, i \in 1..Len(CalendarFields)}}
    \cup {CalReply("truncated", SubSeq(Encode(JList(Records(2))), 1, n), NoCal) :
            n \in 1..(Len(Encode(JList(Records(2)))) - 1)}
    \cup {CalReply("not_json", t, NoCal) : t \in
            {JsonFence \o Chars("\n") \o Encode(JList(Records(1))) \o Chars("\n")
                 \o <<Backtick, Backtick, Backtick>>,
             Chars("Here is your calendar:\n") \o Encode(JList(Records(1))),
             Chars("Day 1: Reel")}}
    \cup {CalReply("not_records", t, NoCal) : t \in
            {Chars("[]"), Chars("[1, 2, 3]"), Chars("{}"), Chars("42"), Chars("null"),
             Chars("\"soon\""), Encode(CalendarRecord(1))}}
    \cup {CalReply("blank", t, NoCal) : t \in {<<>>, Chars(" \n")}}

PaletteTable ==
    Chars("| Name | Role | HEX |\n|---|---|---|\n| Blush | Primary | #FF3E8E |\n| Ink | Text | 1a1a2e |")

PaletteReplies ==
    {TransportFailure}
    \cup {TextReply("plain", t) : t \in
            {PaletteTable, Chars("## Palette\n") \o PaletteTable \o Chars("\n\nUse Blush often."),
             Chars("No table, just Blush #FF3E8E.")}}
    \cup {TextReply("marker", t) : t \in
            {PaletteTable \o Chars("\n\n### Palette JSON\n{\"Blush\": \"#FF3E8E\"}"),
             PaletteTable \o Chars(" \n\nPalette JSON\n") \o JsonFence \o Chars("\n{}\n")
                 \o <<Backtick, Backtick, Backtick>>,
             PaletteTable \o Chars("\nPalette JSON one\nPalette JSON two")}}
    \cup {TextReply("fence", t) : t \in
            {PaletteTable \o Chars("\n\n") \o JsonFence \o Chars("\n{}\n")
                 \o <<Backtick, Backtick, Backtick>>,
             PaletteTable \o Chars("\n") \o JsonFence \o Chars("\n{}\nPalette JSON"),
             PaletteTable \o Chars("\n\n") \o <<Backtick, Backtick, Backtick>>
                 \o Chars("\n{\"Blush\": \"#FF3E8E\"}\n")
                 \o <<Backtick, Backtick, Backtick>>}}
    \cup {TextReply("marker_first", t) : t \in
            {Chars("Palette JSON\n{}"), Chars(" \n") \o JsonFence \o Chars("\n{}")}}
    \cup {TextReply("blank", t) : t \in {<<>>, Chars(" \n")}}

GenericReplies ==
    {TransportFailure}
    \cup {TextReply("plain", t) : t \in
            {Chars("# Brand\n\nBold & bright."),
             Chars("Tagline: ") \o <<"U+201C">> \o Chars("Glow on") \o <<"U+201D", "U+2026">>
                 \o Chars(" ") \o <<"U+2014">> \o Chars(" caf") \o <<"U+00E9", " ", "U+1F3A8">>,
             Chars("Palette JSON\n") \o JsonFence,
             Chars("| Blush | Primary | #FF3E8E |")}}
    \cup {TextReply("blank", t) : t \in {<<>>, Chars(" \n")}}

\* The calendar replies a whole request is checked against.
RequestCalendarReplies ==
    {TransportFailure,
     CalReply("valid", Encode(JList(Records(1))), Cal(1, "plain", 0, 0)),
     CalReply("valid", Encode(JList(RecordsOf(Cal(2, "extra", 0, 0)))),
              Cal(2, "extra", 0, 0)),
     CalReply("one_lacks_field", Encode(JList(RecordsOf(Cal(2, "one_lacks", 2, 4)))),
              Cal(2, "one_lacks", 2, 4)),
     CalReply("all_lack_field", Encode(JList(RecordsOf(Cal(1, "all_lack", 0, 6)))),
              Cal(1, "all_lack", 0, 6)),
     CalReply("truncated", Chars("[{\"day\": 1, \"platform\": \"Insta"), NoCal),
     CalReply("not_json", JsonFence \o Chars("\n") \o Encode(JList(Records(1)))
                              \o Chars("\n") \o <<Backtick, Backtick, Backtick>>, NoCal),
     CalReply("not_records", Chars("[]"), NoCal),
     CalReply("not_records", Chars("42"), NoCal),
     CalReply("blank", Chars(" \n"), NoCal)}

\* The replies a single request is checked against.
RequestReplies(m) ==
    IF m = ContentCalendar THEN RequestCalendarReplies
    ELSE IF m = ColorPaletteGenerator THEN PaletteReplies
    ELSE GenericReplies

\* The replies the many-request session is checked against.
SessionTextReplies ==
    {TransportFailure,
     TextReply("plain", Chars("# Brand\n\nBold & bright.")),
     TextReply("plain", Chars("Second draft ") \o <<"U+2014">> \o Chars(" bolder.")),
     TextReply("blank", Chars(" \n"))}

SessionReplies(m) == SessionTextReplies

Replies(scope, m) ==
    IF scope = "request" THEN RequestReplies(m) ELSE SessionReplies(m)

-----------------------------------------------------------------------------
(* The moodboard images, src/ui_app.py:86-115 and 498-510.                 *)

MoodboardImages == 3

\* What the image service does with the call.
ImageOutcomes ==
    {[shape |-> "ok", ok |-> TRUE], [shape |-> "fail", ok |-> FALSE]}

\* lines 91-101
MoodboardPrompt(answers) ==
    LET client_name == OrDefault(answers["client_name"], Chars("the brand"))
        industry    == OrDefault(answers["industry"], <<>>)
        vibe        == OrDefault(answers["brand_vibe"], <<>>)
        colors      == OrDefault(answers["colors"], <<>>)
        visuals     == OrDefault(answers["visual_keywords"], <<>>)
    IN Chars("Logo moodboard for ") \o client_name \o Chars(" ")
       \o (IF industry # <<>> THEN Chars("in ") \o industry ELSE <<>>) \o Chars(". ")
       \o Chars("Brand vibe: ") \o vibe \o Chars(". Colors: ") \o colors
       \o Chars(". Visual keywords: ") \o visuals \o Chars(". ")
       \o Chars("Show 2D flat logo explorations, clean vector style, centered composition.")

\* The request of lines 103-108 asking for a single image.
ImageRequestSingle(answers, n) ==
    [api |-> "images", model |-> "gpt-image-1", prompt |-> MoodboardPrompt(answers),
     n |-> 1, size |-> "1024x1024"]

\* The request sent to the image service, lines 103-108.
ImageRequest(answers, n) ==
    [api |-> "images", model |-> "gpt-image-1", prompt |-> MoodboardPrompt(answers),
     n |-> n, size |-> "1024x1024"]

\* generate_logo_moodboard_images(answers, n): one image per item of the
\* response, or the service's exception, which nothing here catches.
generate_logo_moodboard_images(answers, n, outcome) ==
    IF outcome.ok THEN Return([i \in 1..n |-> [image |-> i]])
    ELSE Raise("ImageError")

MoodboardHeading == Chars("### ") \o <<"U+1F5BC", "U+FE0F">> \o Chars(" Logo Moodboard Images")

ImageWarning(exc) == Chars("Image generation failed: ") \o Chars(exc)

ImageInfo ==
    Chars("You can still copy the AI prompts above into DALL") \o <<"U+00B7">>
    \o Chars("E, Midjourney, etc.")

\* The moodboard block with the image failure let through.
ShowMoodboardNoCatch(answers, outcome) ==
    LET imgs == generate_logo_moodboard_images(answers, MoodboardImages, outcome) IN
    IF imgs.kind = "return"
    THEN Return([i \in 1..Len(imgs.v) |-> Shown("image", imgs.v[i])])
    ELSE imgs

\* lines 501-510: the try block shows one column per image; `except
\* Exception` turns a failure into a warning and a hint.
ShowMoodboard(answers, outcome) ==
    LET imgs == generate_logo_moodboard_images(answers, MoodboardImages, outcome) IN
    IF imgs.kind = "return"
    THEN Return([i \in 1..Len(imgs.v) |-> Shown("image", imgs.v[i])])
    ELSE Return(<<Shown("warning", ImageWarning(imgs.exc)), Shown("info", ImageInfo)>>)

-----------------------------------------------------------------------------
(* The page, src/ui_app.py:201-549.  Every interaction with a widget       *)
(* outside the form reruns the script from the top; a run shows what it    *)
(* renders and nothing of the run before.  `pc` is where the run stands:   *)
(*   "idle"     a run that had nothing to handle has ended                 *)
(*   "llm"      the submit handler is in generate_*, waiting for the model *)
(*   "render"   the text is back, lines 452-500 are next                   *)
(*   "image"    the moodboard block, lines 501-510, is next                *)
(*   "package"  lines 515-534 are next                                     *)
(*   "zip"      lines 537-549 are next                                     *)
(*   "done"     the run has reached the end of the script                  *)
(*   "stopped"  the run ended at st.stop()                                 *)
(*   "error"    the run ended in an exception nothing caught               *)

MaxRequests == 2

Terminal == {"idle", "done", "stopped", "error"}

\* lines 413-426, without uploads
Answers ==
    [x \in AnswerKeys |->
        IF x = "raw_brief" THEN Str(raw_brief_field) ELSE Str(fields[x])]

NoCall == [fn |-> "none"]

\* The pure-function specifications draw the invocation in the initial
\* state; the one action applies the function to it.
NotRun == [kind |-> "none"]

ChatRequest(fn, context) == [api |-> "chat", fn |-> fn, context |-> context]

Uncaught(exc) == Shown("exception", Chars(exc))

\* A run starts: nothing of the last run stays on the page.
RunStarts ==
    /\ llm_reply' = NoReply
    /\ remote_calls' = <<>>
    /\ img_outcome' = "none"
    /\ result' = <<>>
    /\ pdf_body' = <<>>
    /\ archive' = NoArchive
    /\ files_at_start' = project_files

ClientNameWarning == Chars("Please enter at least a client / brand name.")

\* The Generate button without the check of lines 409-411.
SubmitUnchecked(limit) ==
    /\ pc \in Terminal
    /\ requests < limit
    /\ requests' = requests + 1
    /\ RunStarts
    /\ view' = <<>>
    /\ pc' = "llm"
    /\ UNCHANGED <<raw_brief_field, fields, project_files, mode, packaged_log, call, ret>>

\* lines 408-426: the Generate button of the form.
Submit(limit) ==
    /\ pc \in Terminal
    /\ requests < limit
    /\ requests' = requests + 1
    /\ RunStarts
    /\ IF IsBlank(fields["client_name"])
       THEN /\ view' = <<Shown("warning", ClientNameWarning)>>
            /\ pc' = "stopped"
       ELSE /\ view' = <<>>
            /\ pc' = "llm"
    /\ UNCHANGED <<raw_brief_field, fields, project_files, mode, packaged_log, call, ret>>

\* lines 428-450: generate_*(answers) builds the context and calls the text
\* model through _run_llm; what _run_llm raises ends the run.
TextCall(scope) ==
    /\ pc = "llm"
    /\ \E reply \in Replies(scope, mode) :
         LET text == run_llm(reply) IN
         /\ llm_reply' = reply
         /\ remote_calls' = Append(remote_calls,
                ChatRequest(GenerateFn(mode), build_context_text(Answers, <<>>)))
         /\ IF text.kind = "raise"
            THEN /\ pc' = "error"
                 /\ view' = Append(view, Uncaught(text.exc))
                 /\ result' = result
            ELSE /\ pc' = "render"
                 /\ view' = view
                 /\ result' = text.v
    /\ UNCHANGED <<raw_brief_field, fields, project_files, mode, img_outcome, pdf_body,
                   archive, files_at_start, packaged_log, requests, call, ret>>

Rule == Chars("---")

\* lines 452-500
Render ==
    /\ pc = "render"
    /\ LET out == RenderOutput(mode, result) IN
       IF out.kind = "raise"
       THEN /\ pc' = "error"
            /\ view' = view \o <<Shown("markdown", Rule), Uncaught(out.exc)>>
            /\ pdf_body' = pdf_body
       ELSE /\ pc' = IF mode = AILogoSketchKit THEN "image" ELSE "package"
            /\ view' = view \o <<Shown("markdown", Rule)>> \o out.v.view
                       \o (IF mode = AILogoSketchKit
                           THEN <<Shown("markdown", MoodboardHeading)>> ELSE <<>>)
            /\ pdf_body' = out.v.pdf_body
    /\ UNCHANGED <<raw_brief_field, fields, project_files, mode, llm_reply, remote_calls,
                   img_outcome, result, archive, files_at_start, packaged_log,
                   requests, call, ret>>

\* lines 501-510
ImageCall ==
    /\ pc = "image"
    /\ \E outcome \in ImageOutcomes :
         LET shown == ShowMoodboard(Answers, outcome) IN
         /\ img_outcome' = outcome.shape
         /\ remote_calls' = Append(remote_calls, ImageRequest(Answers, MoodboardImages))
         /\ IF shown.kind = "raise"
            THEN /\ pc' = "error"
                 /\ view' = Append(view, Uncaught(shown.exc))
            ELSE /\ pc' = "package"
                 /\ view' = view \o shown.v
    /\ UNCHANGED <<raw_brief_field, fields, project_files, mode, llm_reply, result,
                   pdf_body, archive, files_at_start, packaged_log, requests, call, ret>>

\* Lines 516-534 without the test of line 515.
PackageAlways ==
    /\ pc = "package"
    /\ pc' = "zip"
    /\ LET client_name == fields["client_name"]
           pdf_bytes   == make_pdf(PdfTitle(client_name, mode), pdf_body)
           filename    == FileName(client_name, mode)
       IN /\ view' = Append(view, Shown("download_button",
                                        [file_name |-> filename, data |-> pdf_bytes]))
          /\ project_files' = DictSet(project_files, filename, pdf_bytes)
          /\ packaged_log' = Append(packaged_log, [k |-> filename, v |-> pdf_bytes])
    /\ UNCHANGED <<raw_brief_field, fields, mode, llm_reply, remote_calls, img_outcome,
                   result, pdf_body, archive, files_at_start, requests, call, ret>>

\* lines 515-534
Package ==
    /\ pc = "package"
    /\ pc' = "zip"
    /\ IF ~IsBlank(pdf_body)
       THEN LET client_name == fields["client_name"]
                pdf_bytes   == make_pdf(PdfTitle(client_name, mode), pdf_body)
                filename    == FileName(client_name, mode)
            IN /\ view' = Append(view, Shown("download_button",
                                           [file_name |-> filename, data |-> pdf_bytes]))
               /\ project_files' = DictSet(project_files, filename, pdf_bytes)
               /\ packaged_log' = Append(packaged_log, [k |-> filename, v |-> pdf_bytes])
       ELSE UNCHANGED <<view, project_files, packaged_log>>
    /\ UNCHANGED <<raw_brief_field, fields, mode, llm_reply, remote_calls, img_outcome,
                   result, pdf_body, archive, files_at_start, requests, call, ret>>

\* zipfile.ZipInfo(filename): the name an entry gets.  A name is cut at its
\* first NUL character; os.sep is "/" on the platform the app runs on, so
\* nothing else is rewritten.
ZipEntryName(fname) ==
    IF Contains(fname, <<"U+0000">>) THEN SplitFirst(fname, <<"U+0000">>) ELSE fname

\* The loop of lines 539-541 writing the newest document only.
ZipWriteNewest(files) ==
    IF files = <<>> THEN <<>>
    ELSE <<[name |-> ZipEntryName(files[Len(files)].k), data |-> files[Len(files)].v]>>

\* lines 539-541: z.writestr(fname, data_bytes) for every item of the
\* mapping, in its order; each call appends an entry to the archive.
ZipWriteAll(files) ==
    [i \in 1..Len(files) |-> [name |-> ZipEntryName(files[i].k), data |-> files[i].v]]

\* ZipFile.namelist()
ZipNames(entries) == [i \in 1..Len(entries) |-> entries[i].name]

\* ZipFile.read(name): the bytes of the last entry written under the name.
ZipRead(entries, name) ==
    LET last == CHOOSE i \in 1..Len(entries) :
                    /\ entries[i].name = name
                    /\ \A j \in (i + 1)..Len(entries) : entries[j].name # name
    IN entries[last].data

\* lines 537-549
BuildArchive ==
    /\ pc = "zip"
    /\ pc' = "done"
    /\ IF project_files # <<>>
       THEN /\ archive' = [name |-> ZipName(fields["client_name"]),
                           entries |-> ZipWriteAll(project_files)]
            /\ view' = Append(view, Shown("download_button",
                                          [file_name |-> ZipName(fields["client_name"]),
                                           data |-> ZipWriteAll(project_files)]))
       ELSE UNCHANGED <<archive, view>>
    /\ UNCHANGED <<raw_brief_field, fields, project_files, mode, llm_reply, remote_calls,
                   img_outcome, result, pdf_body, files_at_start, packaged_log,
                   requests, call, ret>>

-----------------------------------------------------------------------------
(* The calendar branch on its own, against every calendar reply.           *)

CalendarInit ==
    /\ SessionInit
    /\ call \in {[fn |-> "render_calendar", reply |-> reply] :
                 reply \in CalendarReplies \ {TransportFailure}}
    /\ ret = NotRun

\* lines 456-480 applied to the text the model returned
RenderCalendarText ==
    /\ call.fn = "render_calendar"
    /\ ret = NotRun
    /\ ret' = RenderCalendar(call.reply.text)
    /\ UNCHANGED <<session, call>>

CalendarNext == RenderCalendarText

SpecCalendar == CalendarInit /\ [][CalendarNext]_vars

-----------------------------------------------------------------------------
(* The palette branch of src/ui_app.py:481-496 on its own, over texts put  *)
(* together from the pieces a palette answer is made of.                   *)

MaxPieces == 3

Fence == <<Backtick, Backtick, Backtick>>

PalettePieces ==
    {Chars("| Blush | Primary | #FF3E8E |\n"),
     PaletteMarker,
     JsonFence,
     Fence \o Chars("\n"),
     Chars(" \n"),
     Chars("{\"Blush\": 1}")}

RECURSIVE Flatten(_)
Flatten(pieces) ==
    IF pieces = <<>> THEN <<>> ELSE Head(pieces) \o Flatten(Tail(pieces))

PaletteTexts ==
    {Flatten(ps) : ps \in UNION {[1..n -> PalettePieces] : n \in 0..MaxPieces}}

PaletteInit ==
    /\ SessionInit
    /\ call \in {[fn |-> "render_palette", text |-> t] : t \in PaletteTexts}
    /\ ret = NotRun

\* lines 481-496 applied to the text the model returned
RenderPaletteText ==
    /\ call.fn = "render_palette"
    /\ ret = NotRun
    /\ ret' = RenderText(ColorPaletteGenerator, call.text)
    /\ UNCHANGED <<session, call>>

PaletteNext == RenderPaletteText

SpecPalette == PaletteInit /\ [][PaletteNext]_vars

-----------------------------------------------------------------------------
(* The palette branch over markdown tables: the text is rows of three      *)
(* columns, one to a line.                                                 *)

MaxRows == 2

TableRow(name, role, code, pad) ==
    [name |-> name, role |-> role, code |-> code, pad |-> pad]

\* | name | role | code |
RowText(row) ==
    Chars("|") \o row.pad \o row.name \o row.pad
        \o Chars("|") \o row.pad \o row.role \o row.pad
        \o Chars("|") \o row.pad \o row.code \o row.pad \o Chars("|")

TableRows ==
    {TableRow(Chars("Blush"), Chars("Primary"), Chars("#FF3E8E"), Chars(" ")),
     TableRow(Chars("Ink"), Chars("Text"), Chars("1a1a2e"), <<>>),
     TableRow(Chars("Deep Blue"), Chars("Accent colour"), Chars("#0b3D91"), Chars("  ")),
     TableRow(Chars("Rose"), Chars("Accent"), Chars("pink"), Chars(" ")),
     TableRow(Chars("Mist"), Chars("Neutral"), Chars("#FFF"), Chars(" ")),
     TableRow(Chars("Gold"), Chars("Accent"), Chars("#FFD70012"), Chars(" ")),
     TableRow(Chars("---"), Chars("---"), Chars("---"), <<>>),
     TableRow(Chars("Name"), Chars("Role"), Chars("HEX"), Chars(" ")),
     TableRow(<<>>, Chars("Base"), Chars("#00aa11"), <<>>),
     TableRow(<<>>, Chars("Base"), Chars("#AA00FF"), Chars(" "))}

RECURSIVE TableText(_)
TableText(rows) ==
    IF rows = <<>> THEN <<>>
    ELSE IF Len(rows) = 1 THEN RowText(rows[1])
    ELSE RowText(rows[1]) \o Chars("\n") \o TableText(Tail(rows))

Tables == UNION {[1..n -> TableRows] : n \in 0..MaxRows}

TableInit ==
    /\ SessionInit
    /\ call \in {[fn |-> "render_table", rows |-> rows, text |-> TableText(rows)] :
                 rows \in Tables}
    /\ ret = NotRun

\* lines 481-496 applied to a table the model returned
RenderTableText ==
    /\ call.fn = "render_table"
    /\ ret = NotRun
    /\ ret' = RenderText(ColorPaletteGenerator, call.text)
    /\ UNCHANGED <<session, call>>

TableNext == RenderTableText

SpecTable == TableInit /\ [][TableNext]_vars

-----------------------------------------------------------------------------
(* make_pdf, src/ui_app.py:33-80, on its own: titles and bodies over the   *)
(* mapped punctuation, other characters outside latin-1, latin-1           *)
(* characters outside ASCII and plain ones.                                *)

MaxChars == 2

PdfAlphabet ==
    {"U+2013", "U+2014", "U+201C", "U+201D", "U+2018", "U+2019", "U+2026",
     "U+2192", "U+1F3A8", "U+00E9", "a", " ", "\n"}

PdfBodies == UNION {[1..n -> PdfAlphabet] : n \in 0..MaxChars}

PdfTitles ==
    {<<>>,
     PdfTitle(Chars("Acme"), DomainTaglineIdeas),
     PdfTitle(<<"C", "a", "f", "U+00E9", "U+2019", "s", "U+2026">>, BrandDiscoverySummary)}

PdfInit ==
    /\ SessionInit
    /\ call \in {[fn |-> "make_pdf", title |-> t, body |-> b] :
                 t \in PdfTitles, b \in PdfBodies}
    /\ ret = NotRun

\* make_pdf(title, body): the two sanitized texts and the document laid out
MakePdf ==
    /\ call.fn = "make_pdf"
    /\ ret = NotRun
    /\ ret' = [kind |-> "return",
               safe_title |-> sanitize(call.title),
               safe_body |-> sanitize(call.body),
               v |-> make_pdf(call.title, call.body)]
    /\ UNCHANGED <<session, call>>

PdfNext == MakePdf

SpecPdf == PdfInit /\ [][PdfNext]_vars

-----------------------------------------------------------------------------
(* What the user does between runs, src/ui_app.py:201-216, 288-403.        *)

SessionClientNames == {Chars("Acme"), Chars("Bo")}

SessionBriefs == {<<>>, Chars("Launching Acme, an art merch brand.")}

SessionModes == {BrandDiscoverySummary, AILogoSketchKit}

\* What the text model makes of the brief: the brand it names and nothing
\* else, or no reply at all.
AutoFillReplies ==
    {TransportFailure,
     TextReply("exact", Encode(DictOf(FieldKeys,
                   LAMBDA key : IF key = "client_name" THEN JStr(Chars("Acme"))
                                ELSE JStr(<<>>))))}

\* A run with nothing to handle.
IdleRun ==
    /\ RunStarts
    /\ view' = <<>>
    /\ pc' = "idle"

\* lines 327-331: the client name is a widget of the form; typing in it
\* reruns nothing.
EditClientName ==
    /\ pc \in Terminal
    /\ \E v \in SessionClientNames :
         /\ v # fields["client_name"]
         /\ fields' = [fields EXCEPT !["client_name"] = v]
    /\ UNCHANGED <<raw_brief_field, project_files, pc, mode, llm_reply, remote_calls,
                   img_outcome, result, view, pdf_body, archive, files_at_start,
                   packaged_log, requests, call, ret>>

\* lines 288-293: the brief is outside the form, a change of it reruns the
\* script.
EditBrief ==
    /\ pc \in Terminal
    /\ \E b \in SessionBriefs :
         /\ b # raw_brief_field
         /\ raw_brief_field' = b
    /\ IdleRun
    /\ UNCHANGED <<fields, project_files, mode, packaged_log, requests, call, ret>>

\* lines 201-216: the radio of the sidebar.
SelectMode ==
    /\ pc \in Terminal
    /\ \E m \in SessionModes :
         /\ m # mode
         /\ mode' = m
    /\ IdleRun
    /\ UNCHANGED <<raw_brief_field, fields, project_files, packaged_log, requests,
                   call, ret>>

AutoFillWarning == Chars("Please paste a brief first so I can auto-fill.")

AutoFillSuccess ==
    Chars("Fields auto-filled from brief. You can tweak them below, then hit Generate.")

\* data.get(key, "")
GetOrEmpty(data, key) ==
    IF DictHas(data.v, Chars(key)) THEN DictGet(data.v, Chars(key)).v ELSE <<>>

\* lines 298-314: the auto-fill button.
AutoFill ==
    /\ pc \in Terminal
    /\ RunStarts
    /\ pc' = "idle"
    /\ IF IsBlank(raw_brief_field)
       THEN /\ view' = <<Shown("warning", AutoFillWarning)>>
            /\ fields' = fields
       ELSE \E reply \in AutoFillReplies :
              LET data == parse_brief_to_fields(raw_brief_field, reply).v IN
              /\ fields' = [key \in FieldKeySet |-> GetOrEmpty(data, key)]
              /\ view' = <<Shown("success", AutoFillSuccess)>>
    /\ UNCHANGED <<raw_brief_field, project_files, mode, packaged_log, requests,
                   call, ret>>

-----------------------------------------------------------------------------
(* The session: any number of interactions up to MaxRequests submissions.  *)

Init ==
    /\ SessionInit
    /\ call = NoCall
    /\ ret = NotRun

Next ==
    \/ EditClientName
    \/ EditBrief
    \/ SelectMode
    \/ AutoFill
    \/ Submit(MaxRequests)
    \/ TextCall("session")
    \/ Render
    \/ ImageCall
    \/ Package
    \/ BuildArchive

Spec == Init /\ [][Next]_vars

-----------------------------------------------------------------------------
(* One request, from a session that has been used before, checked against  *)
(* every reply of the text model.                                          *)

RequestClientNames ==
    {<<>>, Chars("  "), Chars("Acme"), Chars("Caf") \o <<"U+00E9">> \o Chars(" & Co")}

OtherClient == Chars("Zed")

OldText == Chars("An earlier draft.")

\* The entry an earlier request for this client and kind has stored.
Stored(client_name, m, text) ==
    [k |-> FileName(client_name, m), v |-> make_pdf(PdfTitle(client_name, m), text)]

\* What earlier requests of the session can have left in project_files.
EarlierFiles(client_name, m) ==
    {<<>>, <<Stored(OtherClient, BrandVoiceGuide, OldText)>>}
    \cup (IF IsBlank(client_name) THEN {}
          ELSE {<<Stored(client_name, m, OldText)>>,
                <<Stored(client_name, m, OldText),
                  Stored(OtherClient, BrandVoiceGuide, OldText)>>})

RequestInit ==
    /\ raw_brief_field \in SessionBriefs
    /\ \E client_name \in RequestClientNames, filled \in BOOLEAN :
         fields = [key \in FieldKeySet |->
                      IF key = "client_name" THEN client_name
                      ELSE IF filled THEN SampleValue(key) ELSE <<>>]
    /\ mode \in Modes
    /\ project_files \in EarlierFiles(fields["client_name"], mode)
    /\ packaged_log = project_files
    /\ pc = "idle"
    /\ llm_reply = NoReply
    /\ remote_calls = <<>>
    /\ img_outcome = "none"
    /\ result = <<>>
    /\ view = <<>>
    /\ pdf_body = <<>>
    /\ archive = NoArchive
    /\ files_at_start = <<>>
    /\ requests = 0
    /\ call = NoCall
    /\ ret = NotRun

RequestNext ==
    \/ Submit(1)
    \/ TextCall("request")
    \/ Render
    \/ ImageCall
    \/ Package
    \/ BuildArchive

SpecRequest == RequestInit /\ [][RequestNext]_vars

\* Where a run stands while the text is back and steps of the script are
\* left, and where a run can stand at all.
Running == {"render", "image", "package", "zip"}
Stages == {"idle", "llm"} \cup Running \cup {"done", "stopped", "error"}

\* The run leaves the place where it stands.
RunsOn ==
    /\ pc \in Running
    /\ pc' \in Stages \ {pc}

\* The interpreter runs the script on: a run with steps left does not stand
\* still for ever.  (The wait for the text model is not covered: the reply
\* is the model's to give.)
SpecRequestFair == SpecRequest /\ WF_pc(RunsOn)


-----------------------------------------------------------------------------
(* Specification of the brief parser as a function of its input and of    *)
(* the text model's reply.                                                 *)

ParseInit ==
    /\ SessionInit
    /\ call \in {[fn |-> "parse_brief_to_fields", raw_brief |-> raw_brief,
                 user_prompt |-> ParsePrompt(raw_brief), reply |-> reply] :
                 raw_brief \in Briefs, reply \in ParseReplies}
    /\ ret = NotRun

ParseBrief ==
    /\ call.fn = "parse_brief_to_fields"
    /\ ret = NotRun
    /\ ret' = parse_brief_to_fields(call.raw_brief, call.reply)
    /\ UNCHANGED <<session, call>>

ParseNext == ParseBrief

SpecParse == ParseInit /\ [][ParseNext]_vars

\* The brief parser has run on the drawn input.
ParseDone == call.fn = "parse_brief_to_fields" /\ ret # NotRun

\* A mapping with exactly the ten fixed keys, every value a string.
IsTenStringFields(x) ==
    /\ x.t = "dict"
    /\ Len(x.v) = Len(FieldKeys)
    /\ DictKeys(x.v) = {Chars(FieldKeys[i]) : i \in 1..Len(FieldKeys)}
    /\ \A i \in 1..Len(x.v) : x.v[i].v.t = "str"

\* C1: for every raw brief and every reply of the text model,
\* parse_brief_to_fields returns a mapping with exactly the ten fixed keys,
\* no more and no fewer, and every value is a string.
C1_AlwaysTenStringKeys ==
    ParseDone => ret.kind = "return" /\ IsTenStringFields(ret.v)

\* C2: parse_brief_to_fields never raises, and when the text-model call
\* fails, the reply does not decode as JSON, or it decodes to something that
\* is not a mapping, it returns the ten fixed keys each set to "".
C2_FallbackOnFailure ==
    ParseDone =>
        /\ ret.kind = "return"
        /\ call.reply.shape \in {"transport_failure", "malformed", "non_mapping"}
               => ret.v = EmptyFields

\* C2 witness: the text-model call failed and the fallback was returned.
C2_Witness ==
    /\ ParseDone
    /\ ~call.reply.ok
    /\ ret = Return(EmptyFields)

-----------------------------------------------------------------------------
(* Specification of the context builder as a function of IntakeAnswers.    *)

MaxUploads == 2


\* The ways a form field can be filled: key absent from the dict, "",
\* whitespace only, a value, a value with whitespace around it.
FieldKinds == {"absent", "empty", "space", "value", "padded"}

FieldOfKind(key, kind) ==
    CASE kind = "absent" -> Absent
      [] kind = "empty"  -> Str(<<>>)
      [] kind = "space"  -> Str(Chars("  "))
      [] kind = "value"  -> Str(SampleValue(key))
      [] kind = "padded" -> Str(Chars(" ") \o SampleValue(key) \o Chars("\n"))

\* Every field of kind `base`, except `key`, which is of kind `kind`.
AnswersOf(base, key, kind, raw_brief) ==
    [x \in AnswerKeys |->
        IF x = "raw_brief" THEN raw_brief
        ELSE IF x = key THEN FieldOfKind(x, kind)
        ELSE FieldOfKind(x, base)]

UploadName(i) == Chars("ref") \o EncodeNat(i) \o Chars(".png")

ContextInit ==
    /\ SessionInit
    /\ call \in {[fn |-> "_build_context_text",
                 answers |-> AnswersOf(base, key, kind, raw_brief),
                 uploaded_files |-> [i \in 1..n |-> UploadName(i)]] :
                 base \in FieldKinds, key \in FieldKeySet, kind \in FieldKinds,
                 raw_brief \in {Absent} \cup {Str(b) : b \in Briefs},
                 n \in 0..MaxUploads}
    /\ ret = NotRun

BuildContext ==
    /\ call.fn = "_build_context_text"
    /\ ret = NotRun
    /\ ret' = Return(build_context_text(call.answers, call.uploaded_files))
    /\ UNCHANGED <<session, call>>

ContextNext == BuildContext

SpecContext == ContextInit /\ [][ContextNext]_vars

\* The context builder has run on the drawn answers.
ContextDone == call.fn = "_build_context_text" /\ ret # NotRun

RawBriefGiven == call.answers["raw_brief"].has /\ ~IsBlank(call.answers["raw_brief"].v)

\* Where the listing of structured fields starts in a context text (0 when
\* there is none).
ListingStart(ctx) == Find(ctx, Chars("Structured intake fields"))

\* `text` occurs in ctx, wholly before the listing of structured fields.
OccursBeforeListing(ctx, text) ==
    \E i \in 1..Len(ctx) :
        /\ OccursAt(ctx, text, i)
        /\ i + Len(text) <= ListingStart(ctx)

FieldBlank(a) == ~a.has \/ IsBlank(a.v)

\* `line` is a whole line of ctx.
HasLine(ctx, line) ==
    \E i \in 1..Len(ctx) :
        /\ OccursAt(ctx, line, i)
        /\ (i = 1 \/ ctx[i - 1] = "\n")
        /\ (i + Len(line) > Len(ctx) \/ ctx[i + Len(line)] = "\n")

\* The nine fields that have a labelled line in both blocks.
LabelledKeys == FieldKeySet \ {"reference_links"}

\* The line label of each field in the structured block.
StructuredLabel(key) ==
    CASE key = "client_name"     -> Chars("- Name: ")
      [] key = "industry"        -> Chars("- Industry / niche: ")
      [] key = "target_audience" -> Chars("- Target audience: ")
      [] key = "goals"           -> Chars("- Main business / brand goals: ")
      [] key = "brand_vibe"      -> Chars("- Current / desired vibe: ")
      [] key = "voice_tone"      -> Chars("- Voice & tone notes: ")
      [] key = "colors"          -> Chars("- Preferred colors or themes: ")
      [] key = "visual_keywords" -> Chars("- Visual keywords / mood: ")
      [] key = "platforms"       -> Chars("- Main platforms: ")

\* The line label of each field in the listing under a raw brief.
RawLabel(key) ==
    RawBranchLabels[CHOOSE i \in 1..Len(RawBranchLabels) :
                        RawBranchLabels[i].key = key].label

\* C8: for every IntakeAnswers whose raw_brief is blank, each structured
\* field that is blank (absent, empty or whitespace-only) is rendered as the
\* literal "N/A", and blank reference links as "None provided."; no blank
\* field is rendered as an empty or whitespace string and no line is omitted.
C8_BlankFieldsRenderSentinel ==
    (ContextDone /\ ~RawBriefGiven) =>
        /\ \A key \in LabelledKeys :
               FieldBlank(call.answers[key])
                   => HasLine(ret.v, StructuredLabel(key) \o NA)
        /\ FieldBlank(call.answers["reference_links"])
               => HasLine(ret.v, NoneProvided)

\* The text a field is shown with: its value, or its sentinel when it has
\* none.
ShownValue(key, a) ==
    IF key = "reference_links"
    THEN (IF FieldBlank(a) THEN Chars("None provided") ELSE Strip(a.v))
    ELSE OrDefault(a, NA)

\* Field `key` appears in ctx with its value or its sentinel.
FieldAppears(ctx, key, a) ==
    IF key = "reference_links"
    THEN Contains(ctx, ShownValue(key, a))
    ELSE \/ Contains(ctx, StructuredLabel(key) \o ShownValue(key, a) \o <<"\n">>)
         \/ Contains(ctx, RawLabel(key) \o ShownValue(key, a) \o <<"\n">>)

\* C9: in every context text the context builder composes, also the one
\* built when a raw brief is present, each of the ten structured intake
\* fields appears with its value or with its sentinel ("N/A", "None
\* provided" for reference links); no field is silently omitted.
C9_EveryFieldAppears ==
    ContextDone =>
        \A key \in FieldKeySet : FieldAppears(ret.v, key, call.answers[key])

-----------------------------------------------------------------------------
(* Properties of the session.                                              *)

FileNames(files) == {files[i].k : i \in 1..Len(files)}

\* The last bytes stored under a filename.
LastStored(filename) ==
    LET last == CHOOSE n \in 1..Len(packaged_log) :
                    /\ packaged_log[n].k = filename
                    /\ \A m \in (n + 1)..Len(packaged_log) : packaged_log[m].k # filename
    IN packaged_log[last].v

\* C3: whatever requests the session has seen, project_files holds exactly
\* one entry per distinct filename that was packaged, and the entry's bytes
\* are those of the most recent document packaged under that filename.
C3_OneEntryPerFilename ==
    /\ \A i, j \in 1..Len(project_files) :
           project_files[i].k = project_files[j].k => i = j
    /\ FileNames(project_files) = FileNames(packaged_log)
    /\ \A i \in 1..Len(project_files) :
           /\ project_files[i].k \in FileNames(packaged_log)
           /\ project_files[i].v = LastStored(project_files[i].k)

\* A second generation under the same filename, with other bytes, has been
\* packaged.
C3_Witness ==
    /\ pc = "done"
    /\ Len(packaged_log) = 2
    /\ Len(project_files) = 1
    /\ \E i, j \in 1..Len(packaged_log) :
           /\ i < j
           /\ packaged_log[i].k = packaged_log[j].k
           /\ packaged_log[i].v # packaged_log[j].v

-----------------------------------------------------------------------------
(* Properties of one request.                                              *)

HasShown(widget, body) ==
    \E i \in 1..Len(view) : view[i].w = widget /\ view[i].body = body

HasWidget(widget) == \E i \in 1..Len(view) : view[i].w = widget

\* What project_files holds once the text `text` has been packaged for the
\* request under way: nothing new for a blank text.
FilesAfterPackaging(text) ==
    IF IsBlank(text) THEN files_at_start
    ELSE DictSet(files_at_start, FileName(fields["client_name"], mode),
                 make_pdf(PdfTitle(fields["client_name"], mode), text))

PdfOffered(text) ==
    \E i \in 1..Len(view) :
        /\ view[i].w = "download_button"
        /\ view[i].body.file_name = FileName(fields["client_name"], mode)
        /\ view[i].body.data = make_pdf(PdfTitle(fields["client_name"], mode), text)

\* C4: in a sketch-kit request whose text came back, a failed image call
\* ends in a warning and not in an abort: the text stays displayed, and at
\* the end of the request the text is packaged and stored exactly as it is
\* when the image call succeeds.
C4_ImageFailureIsolated ==
    /\ img_outcome = "fail" =>
           /\ pc \in {"package", "zip", "done"}
           /\ HasShown("warning", ImageWarning("ImageError"))
           /\ HasShown("markdown", result)
           /\ ~HasWidget("exception")
    /\ (img_outcome \in {"ok", "fail"} /\ pc \in {"zip", "done"}) =>
           /\ pdf_body = result
           /\ project_files = FilesAfterPackaging(result)
           /\ ~IsBlank(result) => PdfOffered(result)

\* The image call failed and the request went on to store a new document.
C4_Witness ==
    /\ img_outcome = "fail"
    /\ pc = "done"
    /\ Len(project_files) > Len(files_at_start)
    /\ PdfOffered(result)

RenderedOutput == HasWidget("subheader")

PackagingDone ==
    /\ pc = "done"
    /\ RenderedOutput
    /\ project_files = FilesAfterPackaging(pdf_body)
    /\ ~IsBlank(pdf_body) => PdfOffered(pdf_body)

\* C5: a request ends in an uncaught exception only when the text call
\* failed; once the text call has returned, the request runs on to the end
\* of the script, with the output rendered and the packaging step taken,
\* whatever the text is and whatever the image call does.
C5_OnlyTextFailureAborts ==
    /\ [](pc = "error" => llm_reply.shape = "transport_failure")
    /\ [](pc = "stopped" => IsBlank(fields["client_name"]))
    /\ (pc = "render") ~> PackagingDone

\* A request whose calendar text was cut off has run to its end, packaged.
C5_Witness ==
    /\ pc = "done"
    /\ llm_reply.shape = "truncated"
    /\ PdfOffered(llm_reply.text)
    /\ HasShown("warning", CalendarWarning)

\* C6: when the text call fails, the failure leaves generate_* and ends the
\* request: the run shows the exception and nothing of an output, packages
\* nothing, and project_files is what it was before the request.
C6_TextFailurePropagates ==
    llm_reply.shape = "transport_failure" =>
        /\ pc = "error"
        /\ view = <<Uncaught("TransportError")>>
        /\ result = <<>>
        /\ pdf_body = <<>>
        /\ archive = NoArchive
        /\ project_files = files_at_start
        /\ Len(remote_calls) = 1

\* The text call failed in a session that had documents stored.
C6_Witness ==
    /\ llm_reply.shape = "transport_failure"
    /\ pc = "error"
    /\ Len(project_files) = 2

-----------------------------------------------------------------------------
(* Properties of the calendar branch.                                      *)

CalendarDone == call.fn = "render_calendar" /\ ret # NotRun

SameValue(a, b) == a.t = b.t /\ a.v = b.v

\* The table of the six fields of the records, under the six headers.
TableOf(records) ==
    [columns |-> CalendarHeaders,
     rows |-> [r \in 1..Len(records) |->
                 [c \in 1..Len(CalendarFields) |->
                    DictGet(records[r].v, CalendarFields[c])]]]

IsTableOf(df, records) ==
    /\ df.columns = CalendarHeaders
    /\ Len(df.rows) = Len(records)
    /\ \A r \in 1..Len(df.rows) :
           /\ Len(df.rows[r]) = Len(CalendarFields)
           /\ \A c \in 1..Len(CalendarFields) :
                  SameValue(df.rows[r][c], DictGet(records[r].v, CalendarFields[c]))

\* C10: when the text is a JSON array of records that each hold the six
\* fields, the run shows one table with a row per record and the six
\* columns Day, Platform, Post Type, Hook / Caption Idea, Visual Direction,
\* CTA in that order, each cell the record's value of the field (a seventh
\* field is not shown), and the text kept for packaging is that table
\* printed.
C10_ValidCalendarTable ==
    (CalendarDone /\ call.reply.shape = "valid") =>
        LET records == RecordsOf(call.reply.cal) IN
        /\ ret.kind = "return"
        /\ Len(ret.v.view) = 2
        /\ ret.v.view[1].w = "subheader"
        /\ ret.v.view[2].w = "dataframe"
        /\ IsTableOf(ret.v.view[2].body, records)
        /\ ret.v.pdf_body = df_to_string(TableOf(records))

\* Thirty records with a seventh field each have been rendered as a table
\* of thirty rows.
C10_Witness ==
    /\ CalendarDone
    /\ call.reply.shape = "valid"
    /\ call.reply.cal.n = CalendarDays
    /\ call.reply.cal.variant = "extra"
    /\ ret.v.view[2].w = "dataframe"
    /\ Len(ret.v.view[2].body.rows) = CalendarDays

\* The run shows the warning and the raw text, and keeps the raw text for
\* packaging.
ShowsRawText(outcome, text) ==
    /\ outcome.kind = "return"
    /\ Len(outcome.v.view) = 3
    /\ outcome.v.view[1].w = "subheader"
    /\ outcome.v.view[2].w = "warning"
    /\ outcome.v.view[2].body = CalendarWarning
    /\ outcome.v.view[3].w = "markdown"
    /\ outcome.v.view[3].body = text
    /\ outcome.v.pdf_body = text

\* The replies that do not decode, or decode to something that is no array
\* of records.
UndecodableShapes == {"truncated", "not_json", "not_records", "blank"}

-----------------------------------------------------------------------------
(* Properties of the palette branch.                                       *)

PaletteDone == call.fn = "render_palette" /\ ret # NotRun

\* The text the branch displays: the markdown after the subheader.
Displayed(outcome) == outcome.v.view[2].body

IsPrefix(a, b) == Len(a) <= Len(b) /\ SubSeq(b, 1, Len(a)) = a

\* C12 as stated: a text holding "Palette JSON" is displayed, and kept for
\* packaging, as the part before the first "Palette JSON" with the
\* whitespace at its end removed.
C12_CutAtPaletteMarker ==
    (PaletteDone /\ Contains(call.text, PaletteMarker)) =>
        /\ ret.kind = "return"
        /\ ret.v.view[2].w = "markdown"
        /\ Displayed(ret) = RStrip(SplitFirst(call.text, PaletteMarker))
        /\ ret.v.pdf_body = RStrip(SplitFirst(call.text, PaletteMarker))

\* C12, amended: a text holding "Palette JSON" is displayed, and kept for
\* packaging, as the part before the first "Palette JSON", or before the
\* first "```json" when one comes earlier, with the whitespace at its end
\* removed; nothing from the marker onward is kept.
C12_CutAtMarkerOrEarlierFence ==
    (PaletteDone /\ Contains(call.text, PaletteMarker)) =>
        LET before == SplitFirst(call.text, PaletteMarker)
            kept == IF Contains(before, JsonFence)
                    THEN SplitFirst(before, JsonFence) ELSE before
        IN /\ ret.kind = "return"
           /\ ret.v.view[2].w = "markdown"
           /\ Displayed(ret) = RStrip(kept)
           /\ ret.v.pdf_body = Displayed(ret)
           /\ IsPrefix(Displayed(ret), before)
           /\ ~Contains(Displayed(ret), PaletteMarker)

\* A text with a table row, whitespace and then the marker has been cut to
\* the row.
C12_Witness ==
    /\ PaletteDone
    /\ call.text = Chars("| Blush | Primary | #FF3E8E |\n \nPalette JSON")
    /\ Displayed(ret) = Chars("| Blush | Primary | #FF3E8E |")
    /\ ret.v.pdf_body = Chars("| Blush | Primary | #FF3E8E |")

\* C13: the text displayed and kept for packaging by the palette branch
\* never holds "Palette JSON" and never holds the opener of a fenced code
\* block, with or without a language tag.
C13_NoMarkerNoFenceKept ==
    PaletteDone =>
        /\ ret.kind = "return"
        /\ ret.v.view[2].w = "markdown"
        /\ ~Contains(Displayed(ret), PaletteMarker)
        /\ ~Contains(Displayed(ret), Fence)
        /\ ~Contains(ret.v.pdf_body, PaletteMarker)
        /\ ~Contains(ret.v.pdf_body, Fence)

-----------------------------------------------------------------------------
(* Properties of the swatches.                                             *)

TableDone == call.fn = "render_table" /\ ret # NotRun

\* A 6-hex-digit colour code, with or without the '#'.
IsCode(c) ==
    \/ Len(c) = 6 /\ \A k \in 1..6 : c[k] \in HexDigits
    \/ Len(c) = 7 /\ c[1] = "#" /\ \A k \in 2..7 : c[k] \in HexDigits

\* The swatch a row with a code stands for.
SwatchOf(row) ==
    LET digits == IF Len(row.code) = 7 THEN Tail(row.code) ELSE row.code IN
    [name |-> Strip(row.name),
     role |-> Strip(row.role),
     hex  |-> [k \in 1..6 |-> UpperHex(digits[k])]]

CodeRow(row) == IsCode(row.code)

\* A row with a code and at least one character, be it a space, between the
\* pipes of its first two columns.
FilledCodeRow(row) ==
    /\ IsCode(row.code)
    /\ row.pad \o row.name \o row.pad # <<>>
    /\ row.pad \o row.role \o row.pad # <<>>

\* The swatches the run has shown, in order: what follows the subheader,
\* the text and the swatch heading.
SwatchesShown(outcome) ==
    [i \in 1..(Len(outcome.v.view) - 3) |-> outcome.v.view[i + 3].body]

-----------------------------------------------------------------------------
(* Properties of make_pdf.                                                 *)

PdfDone == call.fn = "make_pdf" /\ ret # NotRun

\* The smart punctuation of the claim: en dash, em dash, the four curly
\* quotes, the ellipsis.
SmartPunctuation ==
    {"U+2013", "U+2014", "U+201C", "U+201D", "U+2018", "U+2019", "U+2026"}

\* What one character of the text is to become.
Sanitized(c) ==
    CASE c \in {"U+2013", "U+2014"} -> <<"-">>
      [] c \in {"U+201C", "U+201D"} -> <<"\"">>
      [] c \in {"U+2018", "U+2019"} -> <<"'">>
      [] c = "U+2026" -> <<".", ".", ".">>
      [] OTHER -> IF IsLatin1(c) THEN <<c>> ELSE <<>>

SanitizedText(text) == Flatten([i \in 1..Len(text) |-> Sanitized(text[i])])

\* C15: the sanitized title and body hold no smart punctuation and nothing
\* outside latin-1; each smart punctuation character has become its ASCII
\* substitute and every other latin-1 character stays, in place and in
\* order.
C15_SanitizedIsLatin1 ==
    PdfDone =>
        /\ ret.safe_title = SanitizedText(call.title)
        /\ ret.safe_body = SanitizedText(call.body)
        /\ ret.v.title = ret.safe_title
        /\ \A i \in 1..Len(ret.safe_title) :
               ret.safe_title[i] \notin SmartPunctuation /\ IsLatin1(ret.safe_title[i])
        /\ \A i \in 1..Len(ret.safe_body) :
               ret.safe_body[i] \notin SmartPunctuation /\ IsLatin1(ret.safe_body[i])

\* A title with a latin-1 letter, a curly quote and an ellipsis, and a body
\* of an arrow and an em dash, have been sanitized.
C15_Witness ==
    /\ PdfDone
    /\ call.title = PdfTitle(<<"C", "a", "f", "U+00E9", "U+2019", "s", "U+2026">>,
                             BrandDiscoverySummary)
    /\ call.body = <<"U+2192", "U+2014">>
    /\ ret.safe_title = <<"C", "a", "f", "U+00E9", "'", "s", ".", ".", ".">>
                            \o Chars(" - ") \o BrandDiscoverySummary
    /\ ret.safe_body = <<"-">>

-----------------------------------------------------------------------------
(* Properties of the archive.                                              *)

\* The run has come to its end and has offered the archive.
ArchiveBuilt == pc = "done" /\ archive # NoArchive

\* C16: the archive built at the end of a request has exactly one entry
\* per item of project_files, documents of earlier requests included, each
\* named by the filename as it is and reading back as the mapped bytes.
C16_ArchiveMirrorsProjectFiles ==
    ArchiveBuilt =>
        /\ Len(archive.entries) = Len(project_files)
        /\ \A i \in 1..Len(project_files) :
               /\ Len(SelectSeq(ZipNames(archive.entries),
                                LAMBDA n : n = project_files[i].k)) = 1
               /\ ZipRead(archive.entries, project_files[i].k) = project_files[i].v
        /\ \A i \in 1..Len(files_at_start) :
               \E j \in 1..Len(archive.entries) :
                   archive.entries[j].name = files_at_start[i].k

\* The second request of a session has built an archive of two documents,
\* the first of them packaged by the first request.
C16_Witness ==
    /\ ArchiveBuilt
    /\ requests = 2
    /\ Len(files_at_start) = 1
    /\ Len(project_files) = 2
    /\ Len(archive.entries) = 2
    /\ archive.entries[1].name = files_at_start[1].k
    /\ archive.entries[1].data = files_at_start[1].v

-----------------------------------------------------------------------------
(* Properties of the remote calls of a request.                            *)

IsChatCall(c) == c.api = "chat"

IsImageCall(c) == c.api = "images"

ChatCalls == SelectSeq(remote_calls, IsChatCall)

ImageCalls == SelectSeq(remote_calls, IsImageCall)

\* The run that passed the client name check has come to its end, by the
\* end of the script or by an uncaught exception.
RequestOver == pc \in {"done", "error"}

\* What holds of the calls at every moment of a request: at most one call
\* of each service, the text call first, and an image call only for the
\* sketch kit, asking for three images, after the text has been returned.
CallsInOrder ==
    /\ Len(ChatCalls) <= 1
    /\ Len(ImageCalls) <= 1
    /\ remote_calls # <<>> => IsChatCall(remote_calls[1])
    /\ \A i \in 1..Len(remote_calls) :
           IsImageCall(remote_calls[i]) =>
               /\ i = 2
               /\ mode = AILogoSketchKit
               /\ remote_calls[i].n = 3
               /\ llm_reply.ok

\* C17 as stated: a request makes exactly one text call, and an image call
\* if and only if the kind is the sketch kit, at most once, for 3 images,
\* after the text call has returned.
C17_ImageCallIffSketchKit ==
    /\ CallsInOrder
    /\ RequestOver =>
           /\ Len(ChatCalls) = 1
           /\ Len(ImageCalls) = 1 <=> mode = AILogoSketchKit

\* C17, amended: a request makes exactly one text call, and an image call
\* if and only if the kind is the sketch kit and the text call has
\* returned, at most once, for 3 images, after the text call; a request
\* whose text call failed makes no image call.
C17_ImageCallIffSketchKitText ==
    /\ CallsInOrder
    /\ RequestOver =>
           /\ Len(ChatCalls) = 1
           /\ Len(ImageCalls) = 1 <=> (mode = AILogoSketchKit /\ llm_reply.ok)
    /\ pc = "stopped" => remote_calls = <<>>

\* A sketch kit request has come to its end after the text call and then
\* the image call for three images.
C17_Witness ==
    /\ pc = "done"
    /\ mode = AILogoSketchKit
    /\ Len(remote_calls) = 2
    /\ IsChatCall(remote_calls[1])
    /\ IsImageCall(remote_calls[2])
    /\ remote_calls[2].n = 3

-----------------------------------------------------------------------------
(* Properties of project_files over the steps of a session.                *)

\* C18: no step of a session (an edit, a change of kind, an auto-fill, a
\* submit, or any step of a request, failed or aborted ones included) takes
\* a filename out of project_files, and the only step that changes
\* project_files is the packaging step of a request, when it has a text to
\* package.
C18_ProjectFilesOnlyGrow ==
    [][/\ \A i \in 1..Len(project_files) : DictHas(project_files', project_files[i].k)
       /\ Len(project_files') >= Len(project_files)
       /\ project_files' # project_files =>
              /\ pc = "package"
              /\ pc' = "zip"
              /\ ~IsBlank(pdf_body)]_vars

\* A request made after a document was packaged has failed, and the
\* document is still there.
C18_Witness ==
    /\ pc = "error"
    /\ requests = 2
    /\ Len(project_files) = 1
    /\ project_files = files_at_start
    /\ packaged_log = project_files

-----------------------------------------------------------------------------
(* Properties of the client name check.                                    *)

\* The submit has been made with a client name that is empty or only
\* whitespace.
BlankNameSubmitted == requests = 1 /\ Strip(fields["client_name"]) = <<>>

\* C19: a submit with an empty or whitespace-only client name is turned
\* away before any work, whatever the brief and the other fields hold: the
\* run stops at the warning, no text or image call is made, nothing is
\* rendered or packaged, no archive is built and project_files is what it
\* was.
C19_BlankClientNameRejected ==
    /\ BlankNameSubmitted =>
           /\ pc = "stopped"
           /\ remote_calls = <<>>
           /\ llm_reply = NoReply
           /\ img_outcome = "none"
           /\ view = <<Shown("warning", ClientNameWarning)>>
           /\ result = <<>>
           /\ pdf_body = <<>>
           /\ archive = NoArchive
           /\ project_files = files_at_start
           /\ packaged_log = files_at_start
    /\ pc = "stopped" => BlankNameSubmitted

\* A submit with a client name of two spaces, the other fields and the
\* brief filled and a document of an earlier request in the session, has
\* been turned away.
C19_Witness ==
    /\ pc = "stopped"
    /\ fields["client_name"] = Chars("  ")
    /\ fields["industry"] # <<>>
    /\ raw_brief_field # <<>>
    /\ Len(project_files) = 1
    /\ requests = 1

-----------------------------------------------------------------------------
(* Properties of the packaging of a blank text.                            *)

IsDownload(shown) == shown.w = "download_button"

\* The download buttons the run has put on the page.
Downloads == SelectSeq(view, IsDownload)

\* The run has passed the packaging step with a plain text that is empty
\* or only whitespace.
BlankTextPassed == pc \in {"zip", "done"} /\ IsBlank(pdf_body)

\* C20: when the plain text of the rendering is empty or only whitespace,
\* the request packages no document: no PDF is made or offered and
\* project_files is what it was; the archive, when one is offered, holds
\* the documents of the earlier requests and nothing else.
C20_BlankTextNotPackaged ==
    BlankTextPassed =>
        /\ project_files = files_at_start
        /\ packaged_log = files_at_start
        /\ pc = "zip" => Downloads = <<>>
        /\ pc = "done" =>
               IF files_at_start = <<>>
               THEN /\ archive = NoArchive
                    /\ Downloads = <<>>
               ELSE /\ archive.entries = ZipWriteAll(files_at_start)
                    /\ Len(Downloads) = 1
                    /\ Downloads[1].body.file_name = archive.name

\* A palette request whose text begins with the marker has come to its end
\* in a session holding one earlier document: the archive holds that
\* document alone.
C20_Witness ==
    /\ pc = "done"
    /\ mode = ColorPaletteGenerator
    /\ ~IsBlank(result)
    /\ IsBlank(pdf_body)
    /\ Len(files_at_start) = 1
    /\ Len(archive.entries) = 1
    /\ archive.entries[1].name = files_at_start[1].k

=============================================================================
